---- MODULE Spec2Model ----
(***************************************************************************)
(* Model of the moodboard-ai backend: the Jamendo playlist service          *)
(* (backend/app/services/jamendo_service.py), the mood analyzer            *)
(* (backend/app/services/mood_analyzer.py), the mood endpoints              *)
(* (backend/app/api/moods.py) and registration (backend/app/api/auth.py).   *)
(*                                                                          *)
(* Python values are represented as follows.                                *)
(*   str          TLA+ string (TLC evaluates Len, SubSeq and \o on strings) *)
(*   list         sequence                                                  *)
(*   dict         function with a set of strings as its domain (a record);  *)
(*                an ordered mapping whose iteration order matters (the     *)
(*                emotions mapping, the scorer output) is a sequence of     *)
(*                <<key, value>> pairs                                      *)
(*   None         the record None                                           *)
(*   float        a fraction <<numerator, denominator>>, denominator > 0    *)
(***************************************************************************)
EXTENDS Integers, Sequences, FiniteSets, TLC

VARIABLES
    CLIENT_ID,       \* JamendoService.CLIENT_ID, read from the environment at import
    pc,              \* position of the running call: "idle", "search", "loop_end", "done", "raised"
    mood_analysis,   \* argument of the running call
    limit,           \* argument of the running get_mood_playlist call
    tags,            \* local of get_mood_playlist: the mapped tag list
    attempt,         \* index into search_attempts of the next attempt
    data,            \* local of get_mood_playlist: the last response
    requests,        \* the catalog requests issued by the running call, in order
    responses,       \* what _make_request returned for each of them
    catalog,         \* the external catalog: tag string -> number of matching tracks
    result,          \* value returned by the call (None while it runs)
    sentiment_analyzer, \* MoodAnalyzer.sentiment_analyzer: TRUE when the pipeline is loaded
    emotion_analyzer,   \* MoodAnalyzer.emotion_analyzer
    nlp,                \* MoodAnalyzer.nlp
    called,          \* the analyzer method called last: "none" before the first call
    text,            \* argument of the last analyzer call
    scorer,          \* what the sentiment pipeline did on the last analyzer call
    emotion_scorer,  \* what the emotion pipeline did on the last analyzer call
    parser,          \* what the spaCy parser did on the last analyzer call
    sentiment_result, \* value returned by the last analyze_sentiment call
    profile,         \* value returned by the last analyze_full_mood call
    request,         \* the HTTP request being answered (None between requests)
    response,        \* the HTTP response of the handler (None between requests)
    entries,         \* the committed rows of the mood_entries table, in insertion order
    next_id,         \* the next primary key the table assigns
    loading,         \* position of MoodAnalyzer.__init__ ("done" once constructed)
    calls,           \* per caller: the analyzer method it is running and how far it got
    users,           \* the committed rows of the users table, in insertion order
    registrations    \* per client: the register_user request in flight and how far it got

vars == <<CLIENT_ID, pc, mood_analysis, limit, tags, attempt, data, requests,
          responses, catalog, result, sentiment_analyzer, emotion_analyzer, nlp,
          called, text, scorer, emotion_scorer, parser, sentiment_result, profile,
          request, response, entries, next_id, loading, calls, users, registrations>>

playlistVars == <<CLIENT_ID, pc, mood_analysis, limit, tags, attempt, data,
                  requests, responses, catalog, result>>

analyzerVars == <<sentiment_analyzer, emotion_analyzer, nlp, called, text, scorer,
                  emotion_scorer, parser, sentiment_result, profile>>

apiVars == <<request, response, entries, next_id>>

concurrentVars == <<loading, calls, users, registrations>>

----------------------------------------------------------------------------
(* Bounds of the model.                                                     *)

MaxTracks == 2
MaxWords == 2
MaxPad == 8

MaxRepeat == 6

LongPad == 30

MaxEntries == 2

----------------------------------------------------------------------------
(* Python built-ins.                                                        *)

None == [type |-> "NoneType"]

Get(d, k, default) == IF k \in DOMAIN d THEN d[k] ELSE default

Min(a, b) == IF a <= b THEN a ELSE b

Max(a, b) == IF a >= b THEN a ELSE b

Abs(a) == IF a >= 0 THEN a ELSE 0 - a

Range(s) == {s[i] : i \in 1..Len(s)}

Prefix(s, n) == SubSeq(s, 1, Min(n, Len(s)))

UpperChars == <<"A", "B", "C", "D", "E", "F", "G", "H", "I", "J", "K", "L", "M",
                "N", "O", "P", "Q", "R", "S", "T", "U", "V", "W", "X", "Y", "Z">>

LowerChars == <<"a", "b", "c", "d", "e", "f", "g", "h", "i", "j", "k", "l", "m",
                "n", "o", "p", "q", "r", "s", "t", "u", "v", "w", "x", "y", "z">>

IsUpper(c) == c \in Range(UpperChars)

LowerChar(c) ==
    IF IsUpper(c)
    THEN LowerChars[CHOOSE i \in 1..26 : UpperChars[i] = c]
    ELSE c

UpperChar(c) ==
    IF c \in Range(LowerChars)
    THEN UpperChars[CHOOSE i \in 1..26 : LowerChars[i] = c]
    ELSE c

CharAt(s, i) == SubSeq(s, i, i)

RECURSIVE Lower(_)
Lower(s) ==
    IF Len(s) = 0 THEN ""
    ELSE LowerChar(CharAt(s, 1)) \o Lower(SubSeq(s, 2, Len(s)))

Capitalize(s) ==
    IF Len(s) = 0 THEN ""
    ELSE UpperChar(CharAt(s, 1)) \o Lower(SubSeq(s, 2, Len(s)))

Contains(s, sub) ==
    \E i \in 1..(Len(s) - Len(sub) + 1) : SubSeq(s, i, i + Len(sub) - 1) = sub

StartsWith(s, p) == Len(s) >= Len(p) /\ SubSeq(s, 1, Len(p)) = p

RECURSIVE Join(_, _)
Join(parts, sep) ==
    IF Len(parts) = 0 THEN ""
    ELSE IF Len(parts) = 1 THEN parts[1]
    ELSE parts[1] \o sep \o Join(Tail(parts), sep)

HexDigits == <<"0", "1", "2", "3", "4", "5", "6", "7", "8", "9",
               "a", "b", "c", "d", "e", "f">>

IsHex(c) == LowerChar(c) \in Range(HexDigits)

HexVal(c) == (CHOOSE i \in 1..16 : HexDigits[i] = LowerChar(c)) - 1

\* int(s, 16) for the slice c[1:3]: one or two hexadecimal digits parse, any
\* other slice (the empty one included) raises ValueError.
HexParses(s) == Len(s) \in {1, 2} /\ \A i \in 1..Len(s) : IsHex(CharAt(s, i))

HexInt(s) == IF Len(s) = 1 THEN HexVal(s) ELSE 16 * HexVal(CharAt(s, 1)) + HexVal(CharAt(s, 2))

RECURSIVE GCD(_, _)
GCD(a, b) == IF b = 0 THEN a ELSE GCD(b, a % b)

\* the fraction n / d in lowest terms
Frac(n, d) == <<n \div GCD(n, d), d \div GCD(n, d)>>

\* comparison of floats held as fractions
FLe(a, b) == a[1] * b[2] <= b[1] * a[2]

FLt(a, b) == a[1] * b[2] < b[1] * a[2]

FMin(a, b) == IF FLe(a, b) THEN a ELSE b

FMax(a, b) == IF FLe(b, a) THEN a ELSE b

\* MaxItem taking the last of the items that hold the maximum value
MaxItem_LastOnTies(items) ==
    LET best == CHOOSE i \in 1..Len(items) :
                    /\ \A j \in 1..Len(items) : FLe(items[j][2], items[i][2])
                    /\ \A j \in (i + 1)..Len(items) : FLt(items[j][2], items[i][2])
    IN items[best]

\* max(d.items(), key=lambda x: x[1]): the first item holding the maximum value
MaxItem(items) ==
    LET best == CHOOSE i \in 1..Len(items) :
                    /\ \A j \in 1..Len(items) : FLe(items[j][2], items[i][2])
                    /\ \A j \in 1..(i - 1) : FLt(items[j][2], items[i][2])
    IN items[best]

----------------------------------------------------------------------------
(* JamendoService tables.                                                   *)

MOOD_TAG_MAP ==
    ("positive-high" :> <<"happy", "energetic", "pop", "upbeat", "dance">>) @@
    ("positive-low" :> <<"calm", "peaceful", "acoustic", "soft", "chill">>) @@
    ("negative-high" :> <<"rock", "intense", "alternative", "pop", "energetic">>) @@
    ("negative-low" :> <<"sad", "slow", "acoustic", "emotional", "calm">>) @@
    ("neutral-high" :> <<"electronic", "instrumental", "pop", "upbeat">>) @@
    ("neutral-low" :> <<"chill", "ambient", "instrumental", "lounge">>) @@
    ("joy" :> <<"happy", "pop", "upbeat">>) @@
    ("sadness" :> <<"sad", "emotional", "slow", "acoustic">>) @@
    ("anger" :> <<"rock", "metal", "intense">>) @@
    ("fear" :> <<"ambient", "electronic", "dark">>) @@
    ("surprise" :> <<"pop", "electronic", "upbeat">>) @@
    ("disgust" :> <<"rock", "alternative", "metal">>)

COLOR_INTENSITY_GENRES ==
    ("vibrant" :> <<"pop", "dance", "electronic", "edm">>) @@
    ("pastel" :> <<"indie", "folk", "acoustic", "singer-songwriter">>) @@
    ("dark" :> <<"alternative", "rock", "gothic", "darkwave">>) @@
    ("warm" :> <<"jazz", "soul", "r&b", "blues">>) @@
    ("cool" :> <<"ambient", "chillwave", "synthwave", "electronic">>)

----------------------------------------------------------------------------
(* JamendoService._analyze_color_palette.                                   *)

IsVibrant(c) == \E x \in {"ff", "ee", "dd"} : Contains(Lower(c), x)

\* the slice c[1:3]
RedSlice(c) == SubSeq(c, 2, Min(3, Len(c)))

VibrantCount(colors) == Cardinality({i \in 1..Len(colors) : IsVibrant(colors[i])})

IsDark(c) == StartsWith(c, "#") /\ HexInt(RedSlice(c)) < 100

DarkCount(colors) == Cardinality({i \in 1..Len(colors) : IsDark(colors[i])})

\* the palette reaches the dark count: neither vibrant nor pastel
ReachesDarkCount(colors) ==
    LET vibrant_count == VibrantCount(colors)
        n == Len(colors)
    IN  n > 0 /\ ~(10 * vibrant_count > 6 * n) /\ ~(10 * vibrant_count < 3 * n)

\* int(c[1:3], 16) raises ValueError inside the dark count
PaletteRaises(colors) ==
    /\ ReachesDarkCount(colors)
    /\ \E i \in 1..Len(colors) :
          StartsWith(colors[i], "#") /\ ~HexParses(RedSlice(colors[i]))

\* the vibe returned when the call does not raise
_analyze_color_palette(colors) ==
    LET vibrant_count == VibrantCount(colors)
        n == Len(colors)
    IN  IF n = 0 THEN "neutral"
        ELSE IF 10 * vibrant_count > 6 * n THEN "vibrant"
        ELSE IF 10 * vibrant_count < 3 * n THEN "pastel"
        ELSE IF 10 * DarkCount(colors) > 5 * n THEN "dark"
        ELSE "neutral"

----------------------------------------------------------------------------
(* JamendoService._get_tags_from_mood.                                      *)

\* Dedup without the seen-set test: every tag is kept
Dedup_KeepAll(ts, seen) == ts

\* the loop over tags that keeps the first occurrence of each tag
RECURSIVE Dedup(_, _)
Dedup(ts, seen) ==
    IF Len(ts) = 0 THEN <<>>
    ELSE IF ts[1] \in seen THEN Dedup(Tail(ts), seen)
    ELSE <<ts[1]>> \o Dedup(Tail(ts), seen \cup {ts[1]})

MoodKey(m) == Get(m, "sentiment", "neutral") \o "-" \o Get(m, "energy_level", "low")

\* BaseTags keeping the first two tags of the entry only
BaseTags_TwoTags(m) == Prefix(Get(MOOD_TAG_MAP, MoodKey(m), <<"chill">>), 2)

BaseTags(m) == Get(MOOD_TAG_MAP, MoodKey(m), <<"chill">>)

DominantEmotion(m) ==
    LET emotions == Get(m, "emotions", <<>>)
    IN  IF Len(emotions) = 0 THEN "" ELSE MaxItem(emotions)[1]

EmotionTags(m) ==
    IF Len(Get(m, "emotions", <<>>)) = 0 THEN <<>>
    ELSE Get(MOOD_TAG_MAP, DominantEmotion(m), <<>>)

VibeTags(m) ==
    Get(COLOR_INTENSITY_GENRES, _analyze_color_palette(Get(m, "color_palette", <<>>)), <<>>)

Truncate(ts) == Prefix(ts, 5)

\* the call raises: the palette analysis is the only step that can
TagsRaise(m) == PaletteRaises(Get(m, "color_palette", <<>>))

\* _get_tags_from_mood with the vibe genres added before the emotion tags
_get_tags_from_mood_VibeBeforeEmotion(m) ==
    Truncate(Dedup(BaseTags(m) \o VibeTags(m) \o EmotionTags(m), {}))

\* the tag list returned when the call does not raise
_get_tags_from_mood(m) ==
    Truncate(Dedup(BaseTags(m) \o EmotionTags(m) \o VibeTags(m), {}))

----------------------------------------------------------------------------
(* JamendoService._generate_playlist_name.                                  *)

Or(a, b) == IF a # "" THEN a ELSE b

name_templates(dominant_emotion) ==
    ("positive-high" :> <<"Energized & " \o Or(dominant_emotion, "Joyful"),
                          "High Vibes Only", "Uplifting Energy">>) @@
    ("positive-low" :> <<"Peaceful " \o Or(dominant_emotion, "Calm"),
                         "Gentle Positivity", "Serene Moments">>) @@
    ("negative-high" :> <<"Intense " \o Or(dominant_emotion, "Power"),
                          "Cathartic Release", "Raw Energy">>) @@
    ("negative-low" :> <<"Reflective " \o Or(dominant_emotion, "Melancholy"),
                         "Quiet Contemplation", "Emotional Journey">>) @@
    ("neutral-high" :> <<"Focused Flow", "Active Balance", "Steady Motion">>) @@
    ("neutral-low" :> <<"Chill Zone", "Balanced Calm", "Mellow Vibes">>)

\* _generate_playlist_name returning the last template of the entry
_generate_playlist_name_LastTemplate(m) ==
    LET sentiment == Capitalize(Get(m, "sentiment", "neutral"))
        energy == Capitalize(Get(m, "energy_level", "low"))
        dominant_emotion == Capitalize(DominantEmotion(m))
        templates == Get(name_templates(dominant_emotion), MoodKey(m),
                         <<sentiment \o " " \o energy \o " Mix">>)
    IN  templates[Len(templates)]

_generate_playlist_name(m) ==
    LET sentiment == Capitalize(Get(m, "sentiment", "neutral"))
        energy == Capitalize(Get(m, "energy_level", "low"))
        dominant_emotion == Capitalize(DominantEmotion(m))
        templates == Get(name_templates(dominant_emotion), MoodKey(m),
                         <<sentiment \o " " \o energy \o " Mix">>)
    IN  templates[1]

----------------------------------------------------------------------------
(* The external catalog and JamendoService._make_request.                   *)

\* the i-th track the catalog returns for the tag string s
CatalogTrack(s, i) ==
    LET id == s \o "/" \o ToString(i)
    IN  [id |-> id, name |-> "name " \o id, artist_name |-> "artist " \o id,
         album_name |-> "album " \o id, duration |-> 180 + i,
         audio |-> "audio " \o id, image |-> "image " \o id,
         license_ccurl |-> "cc " \o id]

\* response.json() of a successful request for the tag string s
CatalogResponse(cat, s) ==
    [headers |-> [status |-> "success"],
     results |-> [i \in 1..cat[s] |-> CatalogTrack(s, i)]]

\* a body the catalog answers with status 200 that carries no result list
NoResultsResponse == [headers |-> [status |-> "failed"]]

\* the parameters _make_request sends
RequestParams(attempt_tags, lim, cid) ==
    [tags |-> Join(attempt_tags, ","), limit |-> lim, order |-> "popularity_total",
     audioformat |-> "mp32", include |-> "musicinfo+licenses",
     client_id |-> cid, format |-> "jsonpretty"]

----------------------------------------------------------------------------
(* JamendoService.get_mood_playlist.                                        *)

\* search_attempts with the two widest attempts swapped
search_attempts_Swapped(ts) ==
    <<Prefix(ts, 2), Prefix(ts, 3), Prefix(ts, 1), <<"instrumental">>>>

search_attempts(ts) ==
    <<Prefix(ts, 3), Prefix(ts, 2), Prefix(ts, 1), <<"instrumental">>>>

AttemptStrings(ts) == {Join(search_attempts(ts)[k], ",") : k \in 1..4}

Truthy(d) == d # None /\ DOMAIN d # {}

\* FoundTracks without the test that the result list is non-empty
FoundTracks_AnyResultList(d) == Truthy(d) /\ "results" \in DOMAIN d

\* the condition that leaves the search loop
FoundTracks(d) == Truthy(d) /\ "results" \in DOMAIN d /\ Len(d.results) > 0

\* the condition that selects the error shape after the loop
NoData(d) == ~Truthy(d) \/ "results" \notin DOMAIN d

FormatTrack(track) ==
    [id |-> track.id, name |-> track.name, artist |-> track.artist_name,
     album |-> track.album_name, duration |-> track.duration,
     audio_url |-> track.audio, image_url |-> track.image,
     jamendo_url |-> "https://www.jamendo.com/track/" \o track.id,
     license |-> track.license_ccurl]

NotConfiguredResult ==
    [error |-> "Jamendo API not configured", playlist_name |-> "Mood Playlist",
     tracks |-> <<>>]

FailedResult(m) ==
    [error |-> "Failed to fetch tracks",
     playlist_name |-> _generate_playlist_name(m), tracks |-> <<>>]

\* SuccessResult reporting the tags of the first search instead of the mapped list
SuccessResult_SearchedTags(m, ts, d) ==
    LET tracks == [i \in 1..Len(d.results) |-> FormatTrack(d.results[i])]
    IN  [playlist_name |-> _generate_playlist_name(m), mood_tags |-> Prefix(ts, 3),
         total_tracks |-> Len(tracks), tracks |-> tracks,
         sentiment |-> Get(m, "sentiment", None),
         energy |-> Get(m, "energy_level", None)]

SuccessResult(m, ts, d) ==
    LET tracks == [i \in 1..Len(d.results) |-> FormatTrack(d.results[i])]
    IN  [playlist_name |-> _generate_playlist_name(m), mood_tags |-> ts,
         total_tracks |-> Len(tracks), tracks |-> tracks,
         sentiment |-> Get(m, "sentiment", None),
         energy |-> Get(m, "energy_level", None)]

\* the value returned after the search loop
PlaylistResult(m, ts, d) ==
    IF NoData(d) THEN FailedResult(m) ELSE SuccessResult(m, ts, d)

----------------------------------------------------------------------------
(* Inputs of the playlist calls.                                            *)

Sentiments == {"positive", "negative", "neutral", "mixed"}

Energies == {"high", "low", "medium"}

EmotionMappings ==
    { <<>>,
      << <<"joy", Frac(9, 10)>> >>,
      << <<"neutral", Frac(8, 10)>> >>,
      << <<"sadness", Frac(5, 10)>>, <<"fear", Frac(5, 10)>> >>,
      << <<"anger", Frac(2, 10)>>, <<"surprise", Frac(7, 10)>> >>,
      << <<"disgust", Frac(1, 1)>> >> }

\* five-colour palettes of the analyzer, short palettes, entries without '#',
\* and entries whose red channel is not hexadecimal
Palettes ==
    { <<>>,
      <<"#FF6B6B", "#FFE66D", "#FF8E53", "#FF6B9D", "#4ECDC4">>,
      <<"#DDDDDD", "#AAAAAA", "#888888", "#666666", "#444444">>,
      <<"#636E72", "#2D3436", "#E17055", "#A29BFE", "#6C5CE7">>,
      <<"#102030", "#20FF00">>,
      <<"#FF0000", "#C0C0C0">>,
      <<"ff0000", "red">>,
      <<"#GGFF00", "#102030">>,
      <<"#", "#EE1111">> }

\* the profiles given to _get_tags_from_mood, with and without missing keys
Profiles ==
    { [sentiment |-> s, energy_level |-> e, emotions |-> em, color_palette |-> cp] :
        s \in Sentiments, e \in Energies, em \in EmotionMappings, cp \in Palettes }
    \cup { [energy_level |-> e, emotions |-> em] : e \in Energies, em \in EmotionMappings }
    \cup { [sentiment |-> s, color_palette |-> cp] : s \in Sentiments, cp \in Palettes }

\* the profiles given to get_mood_playlist
PlaylistProfiles ==
    { [sentiment |-> s, energy_level |-> e, emotions |-> em, color_palette |-> cp] :
        s \in {"positive", "neutral", "mixed"}, e \in {"high", "medium"},
        em \in { <<>>, << <<"joy", Frac(9, 10)>> >> },
        cp \in { <<>>, <<"#FF6B6B", "#FFE66D", "#FF8E53", "#FF6B9D", "#4ECDC4">>,
                 <<"#GGFF00", "#102030">> } }

Limits == {1, 10}

Credentials == {"", "a1b2c3d4"}

----------------------------------------------------------------------------
(* The playlist service as a state machine.                                 *)

\* both services after import: the playlist service holds its credential and
\* no call is running; the analyzer's models did not load
Init ==
    /\ CLIENT_ID \in Credentials
    /\ pc = "idle"
    /\ mood_analysis = None
    /\ limit = 0
    /\ tags = <<>>
    /\ attempt = 0
    /\ data = None
    /\ requests = <<>>
    /\ responses = <<>>
    /\ catalog = <<>>
    /\ result = None
    /\ sentiment_analyzer = FALSE
    /\ emotion_analyzer = FALSE
    /\ nlp = FALSE
    /\ called = "none"
    /\ text = ""
    /\ scorer = None
    /\ emotion_scorer = None
    /\ parser = None
    /\ sentiment_result = None
    /\ profile = None
    /\ request = None
    /\ response = None
    /\ entries = <<>>
    /\ next_id = 1
    /\ loading = "done"
    /\ calls = <<>>
    /\ users = <<>>
    /\ registrations = <<>>

\* get_mood_playlist without a credential: lines 131-137
GetMoodPlaylistNotConfigured ==
    /\ pc = "idle"
    /\ CLIENT_ID = ""
    /\ \E m \in PlaylistProfiles, lim \in Limits :
          /\ mood_analysis' = m
          /\ limit' = lim
    /\ result' = NotConfiguredResult
    /\ pc' = "done"
    /\ requests' = <<>>
    /\ responses' = <<>>
    /\ UNCHANGED <<CLIENT_ID, tags, attempt, data, catalog>>
    /\ UNCHANGED <<analyzerVars, apiVars, concurrentVars>>

\* GetMoodPlaylistBegin without the credential test
GetMoodPlaylistBegin_NoCredentialTest ==
    /\ pc = "idle"
    /\ \E m \in PlaylistProfiles, lim \in Limits :
          /\ ~TagsRaise(m)
          /\ mood_analysis' = m
          /\ limit' = lim
          /\ tags' = _get_tags_from_mood(m)
          /\ catalog' \in [AttemptStrings(_get_tags_from_mood(m)) -> 0..MaxTracks]
    /\ data' = None
    /\ attempt' = 1
    /\ requests' = <<>>
    /\ responses' = <<>>
    /\ result' = None
    /\ pc' = "search"
    /\ UNCHANGED CLIENT_ID
    /\ UNCHANGED <<analyzerVars, apiVars, concurrentVars>>

\* get_mood_playlist up to the search loop: lines 139-150
GetMoodPlaylistBegin ==
    /\ pc = "idle"
    /\ CLIENT_ID # ""
    /\ \E m \in PlaylistProfiles, lim \in Limits :
          /\ ~TagsRaise(m)
          /\ mood_analysis' = m
          /\ limit' = lim
          /\ tags' = _get_tags_from_mood(m)
          /\ catalog' \in [AttemptStrings(_get_tags_from_mood(m)) -> 0..MaxTracks]
    /\ data' = None
    /\ attempt' = 1
    /\ requests' = <<>>
    /\ responses' = <<>>
    /\ result' = None
    /\ pc' = "search"
    /\ UNCHANGED CLIENT_ID
    /\ UNCHANGED <<analyzerVars, apiVars, concurrentVars>>

\* get_mood_playlist when _get_tags_from_mood raises: line 140
GetMoodPlaylistRaises ==
    /\ pc = "idle"
    /\ CLIENT_ID # ""
    /\ \E m \in PlaylistProfiles, lim \in Limits :
          /\ TagsRaise(m)
          /\ mood_analysis' = m
          /\ limit' = lim
    /\ requests' = <<>>
    /\ responses' = <<>>
    /\ result' = None
    /\ pc' = "raised"
    /\ UNCHANGED <<CLIENT_ID, tags, attempt, data, catalog>>
    /\ UNCHANGED <<analyzerVars, apiVars, concurrentVars>>

\* SearchAttempt leaving the loop when the request failed
SearchAttempt_StopsOnFailure(d) ==
    /\ pc = "search"
    /\ requests' = Append(requests,
                          RequestParams(search_attempts(tags)[attempt], limit, CLIENT_ID))
    /\ responses' = Append(responses, d)
    /\ data' = d
    /\ IF FoundTracks(d) \/ attempt = 4 \/ d = None
       THEN pc' = "loop_end" /\ UNCHANGED attempt
       ELSE pc' = "search" /\ attempt' = attempt + 1
    /\ UNCHANGED <<CLIENT_ID, mood_analysis, limit, tags, catalog, result>>
    /\ UNCHANGED <<analyzerVars, apiVars, concurrentVars>>

\* one iteration of the search loop with the response d: lines 152-166
SearchAttempt(d) ==
    /\ pc = "search"
    /\ requests' = Append(requests,
                          RequestParams(search_attempts(tags)[attempt], limit, CLIENT_ID))
    /\ responses' = Append(responses, d)
    /\ data' = d
    /\ IF FoundTracks(d) \/ attempt = 4
       THEN pc' = "loop_end" /\ UNCHANGED attempt
       ELSE pc' = "search" /\ attempt' = attempt + 1
    /\ UNCHANGED <<CLIENT_ID, mood_analysis, limit, tags, catalog, result>>
    /\ UNCHANGED <<analyzerVars, apiVars, concurrentVars>>

\* _make_request catches a RequestException and returns None: lines 56-58
RequestFails ==
    /\ pc = "search"
    /\ SearchAttempt(None)

\* _make_request returns the catalog's result list for the tag string
RequestAnswered ==
    /\ pc = "search"
    /\ SearchAttempt(CatalogResponse(catalog, Join(search_attempts(tags)[attempt], ",")))

\* _make_request returns a body without a result list
RequestAnsweredWithoutResults ==
    /\ pc = "search"
    /\ SearchAttempt(NoResultsResponse)

\* get_mood_playlist after the loop: lines 172-205
GetMoodPlaylistReturn ==
    /\ pc = "loop_end"
    /\ result' = PlaylistResult(mood_analysis, tags, data)
    /\ pc' = "done"
    /\ UNCHANGED <<CLIENT_ID, mood_analysis, limit, tags, attempt, data, requests,
                   responses, catalog>>
    /\ UNCHANGED <<analyzerVars, apiVars, concurrentVars>>

\* _generate_playlist_name called on its own: it reads the profile only
GeneratePlaylistName ==
    /\ pc = "idle"
    /\ \E m \in Profiles :
          /\ mood_analysis' = m
          /\ result' = [playlist_name |-> _generate_playlist_name(m)]
    /\ pc' = "named"
    /\ UNCHANGED <<CLIENT_ID, limit, tags, attempt, data, requests, responses, catalog>>
    /\ UNCHANGED <<analyzerVars, apiVars, concurrentVars>>

\* the caller takes the outcome and the locals of the call are gone; the
\* service is ready for the next call
NextCall ==
    /\ pc \in {"done", "raised", "named", "picked"}
    /\ pc' = "idle"
    /\ mood_analysis' = None
    /\ limit' = 0
    /\ tags' = <<>>
    /\ attempt' = 0
    /\ data' = None
    /\ requests' = <<>>
    /\ responses' = <<>>
    /\ catalog' = <<>>
    /\ result' = None
    /\ UNCHANGED CLIENT_ID
    /\ UNCHANGED <<analyzerVars, apiVars, concurrentVars>>

NextPlaylist ==
    \/ GetMoodPlaylistNotConfigured
    \/ GetMoodPlaylistBegin
    \/ GetMoodPlaylistRaises
    \/ RequestFails
    \/ RequestAnswered
    \/ RequestAnsweredWithoutResults
    \/ GetMoodPlaylistReturn
    \/ NextCall

SpecPlaylist == Init /\ [][NextPlaylist]_vars

\* the playlist calls together with calls of _generate_playlist_name alone
NextNames == NextPlaylist \/ GeneratePlaylistName

SpecNames == Init /\ [][NextNames]_vars

----------------------------------------------------------------------------
(* MoodAnalyzer.heuristic_energy.                                           *)

CountChar(s, c) == Cardinality({i \in 1..Len(s) : CharAt(s, i) = c})

UpperCount(s) == Cardinality({i \in 1..Len(s) : IsUpper(CharAt(s, i))})

intense_words ==
    {"amazing", "awesome", "fantastic", "furious", "incredible", "hate", "love",
     "ecstatic", "angry", "thrilled", "so", "very", "extremely", "super",
     "totally", "completely"}

\* caps_ratio > 0.2, with caps_ratio = UpperCount / max(len(text), 1)
CapsRatioHigh(s) == 5 * UpperCount(s) > Max(Len(s), 1)

heuristic_energy(s) ==
    IF \/ CountChar(s, "!") > 1
       \/ CapsRatioHigh(s)
       \/ \E w \in intense_words : Contains(Lower(s), w)
    THEN "high" ELSE "low"

----------------------------------------------------------------------------
(* str.split() and MoodAnalyzer._fallback_sentiment_analysis.               *)

IsSpace(c) == c \in {" ", "\t", "\n", "\r"}

\* str.split(): the maximal runs of non-whitespace characters, in order
RECURSIVE SplitFrom(_, _, _)
SplitFrom(s, i, word) ==
    IF i > Len(s) THEN (IF word = "" THEN <<>> ELSE <<word>>)
    ELSE IF IsSpace(CharAt(s, i))
         THEN (IF word = "" THEN <<>> ELSE <<word>>) \o SplitFrom(s, i + 1, "")
         ELSE SplitFrom(s, i + 1, word \o CharAt(s, i))

Split(s) == SplitFrom(s, 1, "")

positive_words ==
    {"happy", "joy", "love", "excited", "great", "amazing", "wonderful", "good",
     "peaceful", "grateful"}

negative_words ==
    {"sad", "angry", "frustrated", "tired", "worried", "stressed", "bad", "awful",
     "terrible", "anxious"}

CountIn(words, set) == Cardinality({i \in 1..Len(words) : words[i] \in set})

\* (abs(positive_count - negative_count) + 1) / (len(words) / 10 + 1)
RawConfidence(positive_count, negative_count, n) ==
    Frac(10 * (Abs(positive_count - negative_count) + 1), n + 10)

\* FallbackConfidence without the lower clamp max(0.6, ...)
FallbackConfidence_NoFloor(positive_count, negative_count, n) ==
    FMin(Frac(95, 100), RawConfidence(positive_count, negative_count, n))

\* max(0.6, min(0.95, raw))
FallbackConfidence(positive_count, negative_count, n) ==
    FMax(Frac(6, 10), FMin(Frac(95, 100), RawConfidence(positive_count, negative_count, n)))

\* _fallback_sentiment_analysis joining the combined label with an underscore
_fallback_sentiment_analysis_Underscore(t) ==
    LET words == Split(Lower(t))
        positive_count == CountIn(words, positive_words)
        negative_count == CountIn(words, negative_words)
        confidence == FallbackConfidence(positive_count, negative_count, Len(words))
        overall_sentiment ==
            IF positive_count > negative_count THEN "positive"
            ELSE IF negative_count > positive_count THEN "negative"
            ELSE "neutral"
        energy == IF positive_count + negative_count > 2 THEN "high" ELSE "low"
    IN  [sentiment |-> overall_sentiment,
         confidence |-> confidence,
         energy |-> energy,
         combined_label |-> overall_sentiment \o "_" \o energy,
         scores |-> << <<overall_sentiment, confidence>> >>]

_fallback_sentiment_analysis(t) ==
    LET words == Split(Lower(t))
        positive_count == CountIn(words, positive_words)
        negative_count == CountIn(words, negative_words)
        confidence == FallbackConfidence(positive_count, negative_count, Len(words))
        overall_sentiment ==
            IF positive_count > negative_count THEN "positive"
            ELSE IF negative_count > positive_count THEN "negative"
            ELSE "neutral"
        energy == IF positive_count + negative_count > 2 THEN "high" ELSE "low"
    IN  [sentiment |-> overall_sentiment,
         confidence |-> confidence,
         energy |-> energy,
         combined_label |-> overall_sentiment \o "-" \o energy,
         scores |-> << <<overall_sentiment, confidence>> >>]

----------------------------------------------------------------------------
(* MoodAnalyzer.analyze_sentiment.  The call of the pipeline has one of the *)
(* outcomes                                                                 *)
(*   [kind |-> "raises"]                     the pipeline raised            *)
(*   [kind |-> "value", list |-> FALSE]      it returned something that is  *)
(*                                           not a list                     *)
(*   [kind |-> "value", list |-> TRUE, nested |-> b, items |-> entries]     *)
(*       it returned the list of entries, wrapped in an outer list when b.  *)
(* An entry is a dict that has a label, a score, or both.                   *)

\* lines 68-72: the flattened result list is a non-empty list
ResultsUsable(out) == out.kind = "value" /\ out.list /\ Len(out.items) > 0

\* line 74 raises KeyError when an entry lacks r["label"] or r["score"]
EntriesWellFormed(items) ==
    \A i \in 1..Len(items) : {"label", "score"} \subseteq DOMAIN items[i]

sentiment_map ==
    ("LABEL_0" :> "negative") @@ ("LABEL_1" :> "neutral") @@ ("LABEL_2" :> "positive")

\* sentiment_map.get(r["label"], r["label"])
MapLabel(label) == Get(sentiment_map, label, label)

\* d[k] = v on an ordered mapping: a key already present keeps its place
Put(d, k, v) ==
    IF \E i \in 1..Len(d) : d[i][1] = k
    THEN [i \in 1..Len(d) |-> IF d[i][1] = k THEN <<k, v>> ELSE d[i]]
    ELSE Append(d, <<k, v>>)

\* the dict comprehension of line 74
RECURSIVE ScoresOf(_, _)
ScoresOf(items, acc) ==
    IF Len(items) = 0 THEN acc
    ELSE ScoresOf(Tail(items), Put(acc, MapLabel(items[1].label), items[1].score))

\* EnergyBand with strict comparisons at both thresholds
EnergyBand_Strict(confidence, t) ==
    IF FLt(Frac(75, 100), confidence) THEN "high"
    ELSE IF FLt(confidence, Frac(40, 100)) THEN "low"
    ELSE heuristic_energy(t)

\* lines 79-84
EnergyBand(confidence, t) ==
    IF FLe(Frac(75, 100), confidence) THEN "high"
    ELSE IF FLe(confidence, Frac(40, 100)) THEN "low"
    ELSE heuristic_energy(t)

\* PrimarySentiment taking the energy from the text estimator alone
PrimarySentiment_LexicalEnergy(t, items) ==
    LET scores == ScoresOf(items, <<>>)
        dominant == MaxItem(scores)
        energy == heuristic_energy(t)
    IN  [sentiment |-> dominant[1],
         confidence |-> dominant[2],
         energy |-> energy,
         combined_label |-> dominant[1] \o "-" \o energy,
         scores |-> scores]

\* lines 73-94
PrimarySentiment(t, items) ==
    LET scores == ScoresOf(items, <<>>)
        dominant == MaxItem(scores)
        energy == EnergyBand(dominant[2], t)
    IN  [sentiment |-> dominant[1],
         confidence |-> dominant[2],
         energy |-> energy,
         combined_label |-> dominant[1] \o "-" \o energy,
         scores |-> scores]

\* the primary path returns: the pipeline is loaded and nothing raised in the try block
PrimaryPathReturns(loaded, out) ==
    loaded /\ ResultsUsable(out) /\ EntriesWellFormed(out.items)

\* analyze_sentiment returning a fixed default instead of the lexical fallback
analyze_sentiment_DefaultOnFailure(loaded, t, out) ==
    IF PrimaryPathReturns(loaded, out)
    THEN PrimarySentiment(t, out.items)
    ELSE [sentiment |-> "neutral", confidence |-> Frac(1, 2), energy |-> "low",
          combined_label |-> "neutral-low", scores |-> << <<"neutral", Frac(1, 2)>> >>]

analyze_sentiment(loaded, t, out) ==
    IF PrimaryPathReturns(loaded, out)
    THEN PrimarySentiment(t, out.items)
    ELSE _fallback_sentiment_analysis(t)

----------------------------------------------------------------------------
(* MoodAnalyzer.analyze_emotions and _fallback_emotion_analysis.            *)

emotion_keywords ==
    << <<"joy", {"happy", "excited", "joy", "love", "amazing", "wonderful"}>>,
       <<"sadness", {"sad", "down", "depressed", "lonely", "hurt"}>>,
       <<"anger", {"angry", "mad", "frustrated", "annoyed", "irritated"}>>,
       <<"fear", {"scared", "worried", "anxious", "nervous", "afraid"}>>,
       <<"surprise", {"surprised", "shocked", "amazed", "unexpected"}>>,
       <<"disgust", {"disgusted", "sick", "revolting", "gross"}>> >>

\* min(score * 3, 1.0) with score = matches / max(len(words), 1)
EmotionScore(words, keywords) ==
    FMin(Frac(3 * CountIn(words, keywords), Max(Len(words), 1)), Frac(1, 1))

\* _fallback_emotion_analysis adding neutral only when no keyword matched at all
_fallback_emotion_analysis_OnlyWhenNoMatch(t) ==
    LET words == Split(Lower(t))
        emotions == [i \in 1..Len(emotion_keywords) |->
                        <<emotion_keywords[i][1], EmotionScore(words, emotion_keywords[i][2])>>]
    IN  IF \A i \in 1..Len(emotions) : emotions[i][2][1] = 0
        THEN Put(emotions, "neutral", Frac(8, 10))
        ELSE emotions

_fallback_emotion_analysis(t) ==
    LET words == Split(Lower(t))
        emotions == [i \in 1..Len(emotion_keywords) |->
                        <<emotion_keywords[i][1], EmotionScore(words, emotion_keywords[i][2])>>]
    IN  IF \A i \in 1..Len(emotions) : FLt(emotions[i][2], Frac(1, 10))
        THEN Put(emotions, "neutral", Frac(8, 10))
        ELSE emotions

\* the dict comprehension of line 111
RECURSIVE EmotionsOf(_, _)
EmotionsOf(items, acc) ==
    IF Len(items) = 0 THEN acc
    ELSE EmotionsOf(Tail(items), Put(acc, items[1].label, items[1].score))

\* analyze_emotions returning an empty mapping when the pipeline fails
analyze_emotions_EmptyOnFailure(loaded, t, out) ==
    IF PrimaryPathReturns(loaded, out)
    THEN EmotionsOf(out.items, <<>>)
    ELSE <<>>

analyze_emotions(loaded, t, out) ==
    IF PrimaryPathReturns(loaded, out)
    THEN EmotionsOf(out.items, <<>>)
    ELSE _fallback_emotion_analysis(t)

----------------------------------------------------------------------------
(* MoodAnalyzer.extract_keywords.  The parser has one of the outcomes       *)
(*   [kind |-> "raises"]                             self.nlp(text) raised  *)
(*   [kind |-> "raises_late", noun_chunks |-> cs]    the token loop raised  *)
(*                                         after keywords held the chunks   *)
(*   [kind |-> "value", noun_chunks |-> cs, adjectives |-> as]              *)

LowerAll(ss) == [i \in 1..Len(ss) |-> Lower(ss[i])]

\* ParsedKeywords without the [:3] slice on the adjectives
ParsedKeywords_AllAdjectives(loaded, out) ==
    IF ~loaded \/ out.kind = "raises" THEN <<>>
    ELSE IF out.kind = "raises_late" THEN Prefix(LowerAll(out.noun_chunks), 5)
    ELSE Prefix(LowerAll(out.noun_chunks), 5) \o LowerAll(out.adjectives)

\* keywords after the try block of lines 120-129
ParsedKeywords(loaded, out) ==
    IF ~loaded \/ out.kind = "raises" THEN <<>>
    ELSE IF out.kind = "raises_late" THEN Prefix(LowerAll(out.noun_chunks), 5)
    ELSE Prefix(LowerAll(out.noun_chunks), 5) \o Prefix(LowerAll(out.adjectives), 3)

emotion_words ==
    {"happy", "sad", "angry", "excited", "worried", "calm", "stressed", "peaceful"}

SelectSeq2(ss, set) ==
    LET Keep(w) == w \in set IN SelectSeq(ss, Keep)

\* lines 133-135
FallbackKeywords(t) == Prefix(SelectSeq2(Split(Lower(t)), emotion_words), 5)

extract_keywords(loaded, t, out) ==
    IF ParsedKeywords(loaded, out) # <<>>
    THEN ParsedKeywords(loaded, out)
    ELSE FallbackKeywords(t)

----------------------------------------------------------------------------
(* MoodAnalyzer.analyze_full_mood.                                          *)

palettes ==
    [positive |-> [high |-> <<"#FF6B6B", "#FFE66D", "#FF8E53", "#FF6B9D", "#4ECDC4">>,
                   low |-> <<"#A8E6CF", "#88D8C0", "#FFEAA7", "#FD79A8", "#FDCB6E">>],
     negative |-> [high |-> <<"#636E72", "#2D3436", "#E17055", "#A29BFE", "#6C5CE7">>,
                   low |-> <<"#74B9FF", "#0984E3", "#A29BFE", "#DDA0DD", "#81ECEC">>],
     neutral |-> [high |-> <<"#FDCB6E", "#E17055", "#00B894", "#00CEC9", "#A29BFE">>,
                  low |-> <<"#DDDDDD", "#AAAAAA", "#888888", "#666666", "#444444">>]]

insights ==
    ("positive-high" :> "Your energy is radiating positivity! Channel this momentum into creative projects or connecting with others.") @@
    ("positive-low" :> "There's a gentle contentment in your words. This peaceful energy is perfect for reflection and self-care.") @@
    ("negative-high" :> "I sense some intensity in your emotions. Consider channeling this energy through physical activity or creative expression.") @@
    ("negative-low" :> "You seem to be processing some heavy feelings. Remember that it's okay to feel this way - try some deep breathing or gentle movement.") @@
    ("neutral-high" :> "You're in an active, balanced state. This is great energy for tackling projects or trying something new.") @@
    ("neutral-low" :> "Your mood feels steady and calm. This is a perfect time for planning, organizing, or quiet activities.")

default_insight ==
    "Every emotion is valid and temporary. You're doing great by checking in with yourself."

art_styles == [positive |-> "circles", negative |-> "sharp", neutral |-> "organic"]

music_moods == [positive |-> "uplifting", negative |-> "soothing", neutral |-> "balanced"]

\* PaletteFor without the neutral row as default for an unknown sentiment
PaletteFor_NoNeutralRow(sentiment, energy) ==
    Get(Get(palettes, sentiment, [high |-> <<>>, low |-> <<>>]), energy, palettes.neutral.low)

\* line 164
PaletteFor(sentiment, energy) ==
    Get(Get(palettes, sentiment, palettes.neutral), energy, palettes.neutral.low)

\* BuildProfile with an insight that depends on the keywords found
BuildProfile_InsightFromKeywords(sr, emotions, keywords) ==
    LET energy == Get(sr, "energy", "low")
    IN  [sentiment |-> sr.sentiment,
         sentiment_confidence |-> sr.confidence,
         energy_level |-> energy,
         emotions |-> emotions,
         keywords |-> keywords,
         color_palette |-> PaletteFor(sr.sentiment, energy),
         art_style |-> Get(art_styles, sr.sentiment, "organic"),
         music_mood |-> Get(music_moods, sr.sentiment, "balanced"),
         ai_insight |-> IF keywords = <<>> THEN default_insight
                        ELSE Get(insights, Get(sr, "combined_label", ""), default_insight)]

\* lines 163-199
BuildProfile(sr, emotions, keywords) ==
    LET energy == Get(sr, "energy", "low")
    IN  [sentiment |-> sr.sentiment,
         sentiment_confidence |-> sr.confidence,
         energy_level |-> energy,
         emotions |-> emotions,
         keywords |-> keywords,
         color_palette |-> PaletteFor(sr.sentiment, energy),
         art_style |-> Get(art_styles, sr.sentiment, "organic"),
         music_mood |-> Get(music_moods, sr.sentiment, "balanced"),
         ai_insight |-> Get(insights, Get(sr, "combined_label", ""), default_insight)]

\* loaded: the three load flags; so, eo, po: what the two pipelines and the parser do
analyze_full_mood(loaded, t, so, eo, po) ==
    BuildProfile(analyze_sentiment(loaded[1], t, so),
                 analyze_emotions(loaded[2], t, eo),
                 extract_keywords(loaded[3], t, po))

----------------------------------------------------------------------------
(* Inputs of the analyzer calls.                                            *)

Vocabulary == {"love", "sad", "ANGRY", "wow!!", "good\tbad"}

RECURSIVE SeqsUpTo(_, _)
SeqsUpTo(S, n) ==
    IF n = 0 THEN {<<>>}
    ELSE SeqsUpTo(S, n - 1) \cup
         {Append(q, x) : q \in {r \in SeqsUpTo(S, n - 1) : Len(r) = n - 1}, x \in S}

Filler(n) == [i \in 1..n |-> "day"]

\* one listed word repeated, and one listed word among LongPad one-letter words
LongTexts ==
    { Join([i \in 1..MaxRepeat |-> "sad"], " "),
      Join(<<"sad">> \o [i \in 1..LongPad |-> "a"], " "),
      Join([i \in 1..LongPad |-> "a"] \o <<"love">>, " ") }

\* up to MaxWords words of the vocabulary, at most one of them followed by
\* MaxPad filler words, and the long texts
Texts ==
    {Join(ws, " ") : ws \in SeqsUpTo(Vocabulary, MaxWords)}
    \cup {Join(ws \o Filler(MaxPad), " ") : ws \in SeqsUpTo(Vocabulary, 1)}
    \cup LongTexts

Entry(l, sc) == [label |-> l, score |-> Frac(sc, 100)]

SentimentLabels == {"LABEL_0", "LABEL_2", "neutral", "LABEL_3"}

ScoreValues == {40, 55, 75, 90}

Value(nested, items) == [kind |-> "value", list |-> TRUE, nested |-> nested, items |-> items]

\* what a pipeline call can do: raise, return a non-list, an empty list, a
\* list of entries (flat or nested), entries lacking a key
FailingOutcomes ==
    { [kind |-> "raises"],
      [kind |-> "value", list |-> FALSE],
      Value(FALSE, <<>>),
      Value(TRUE, <<>>),
      Value(FALSE, <<[label |-> "LABEL_2"]>>),
      Value(TRUE, <<[score |-> Frac(90, 100)]>>),
      Value(FALSE, <<Entry("LABEL_2", 75), [score |-> Frac(10, 100)]>>) }

SentimentOutcomes ==
    FailingOutcomes
    \cup {Value(TRUE, <<Entry(l, sc)>>) : l \in SentimentLabels, sc \in ScoreValues}
    \cup {Value(FALSE, <<Entry("LABEL_2", sc)>>) : sc \in ScoreValues}
    \cup { Value(TRUE, <<Entry("LABEL_0", 55), Entry("LABEL_1", 40), Entry("LABEL_2", 5)>>),
           Value(TRUE, <<Entry("negative", 40), Entry("neutral", 40), Entry("positive", 20)>>),
           Value(FALSE, <<Entry("LABEL_0", 40), Entry("negative", 75)>>),
           Value(FALSE, <<Entry("negative", 75), Entry("LABEL_0", 40)>>),
           Value(FALSE, <<Entry("neutral", 55), Entry("LABEL_3", 75)>>) }

\* the sentiment outcomes tried together with the other two adapters
ProfileSentimentOutcomes ==
    FailingOutcomes
    \cup { Value(TRUE, <<Entry("LABEL_3", 40)>>),
           Value(TRUE, <<Entry("LABEL_2", 75)>>),
           Value(FALSE, <<Entry("LABEL_2", 55)>>),
           Value(TRUE, <<Entry("neutral", 55)>>),
           Value(TRUE, <<Entry("LABEL_0", 55), Entry("LABEL_1", 40), Entry("LABEL_2", 5)>>),
           Value(FALSE, <<Entry("neutral", 55), Entry("LABEL_3", 75)>>) }

EmotionOutcomes ==
    { [kind |-> "raises"],
      [kind |-> "value", list |-> FALSE],
      Value(TRUE, <<>>),
      Value(FALSE, <<Entry("joy", 90), [label |-> "sadness"]>>),
      Value(TRUE, <<Entry("joy", 90), Entry("sadness", 5)>>),
      Value(FALSE, <<Entry("fear", 50), Entry("anger", 50), Entry("fear", 20)>>) }

ParserOutcomes ==
    { [kind |-> "raises"],
      [kind |-> "raises_late", noun_chunks |-> <<"A Day">>],
      [kind |-> "value", noun_chunks |-> <<>>, adjectives |-> <<>>],
      [kind |-> "value", noun_chunks |-> <<"I", "a Good day">>, adjectives |-> <<"Good">>],
      [kind |-> "value",
       noun_chunks |-> <<"we", "the sun", "the sea", "a walk", "lunch", "my friends">>,
       adjectives |-> <<"warm", "long", "old", "happy">>] }

----------------------------------------------------------------------------
(* The analyzer as a state machine.  MoodAnalyzer.__init__ loads the three  *)
(* models in one try block: either all three attributes are set or the      *)
(* except branch sets all three to None.                                    *)

InitAnalyzer ==
    /\ sentiment_analyzer \in BOOLEAN
    /\ emotion_analyzer = sentiment_analyzer
    /\ nlp = sentiment_analyzer
    /\ called = "none"
    /\ text = ""
    /\ scorer = None
    /\ emotion_scorer = None
    /\ parser = None
    /\ sentiment_result = None
    /\ profile = None
    /\ CLIENT_ID = ""
    /\ pc = "idle"
    /\ mood_analysis = None
    /\ limit = 0
    /\ tags = <<>>
    /\ attempt = 0
    /\ data = None
    /\ requests = <<>>
    /\ responses = <<>>
    /\ catalog = <<>>
    /\ result = None
    /\ request = None
    /\ response = None
    /\ entries = <<>>
    /\ next_id = 1
    /\ loading = "done"
    /\ calls = <<>>
    /\ users = <<>>
    /\ registrations = <<>>

\* analyze_sentiment when the pipeline is None: lines 64, 99
AnalyzeSentimentUnloaded ==
    /\ called = "none"
    /\ ~sentiment_analyzer
    /\ \E t \in Texts :
          /\ text' = t
          /\ sentiment_result' = analyze_sentiment(FALSE, t, None)
    /\ called' = "analyze_sentiment"
    /\ scorer' = None
    /\ emotion_scorer' = None
    /\ parser' = None
    /\ profile' = None
    /\ UNCHANGED <<sentiment_analyzer, emotion_analyzer, nlp>>
    /\ UNCHANGED <<playlistVars, apiVars, concurrentVars>>

\* analyze_sentiment when the try block returns: lines 65-94
AnalyzeSentimentPrimary ==
    /\ called = "none"
    /\ sentiment_analyzer
    /\ \E t \in Texts, out \in SentimentOutcomes :
          /\ PrimaryPathReturns(TRUE, out)
          /\ text' = t
          /\ scorer' = out
          /\ sentiment_result' = analyze_sentiment(TRUE, t, out)
    /\ called' = "analyze_sentiment"
    /\ emotion_scorer' = None
    /\ parser' = None
    /\ profile' = None
    /\ UNCHANGED <<sentiment_analyzer, emotion_analyzer, nlp>>
    /\ UNCHANGED <<playlistVars, apiVars, concurrentVars>>

\* analyze_sentiment when the try block raises: lines 95-99
AnalyzeSentimentScorerFails ==
    /\ called = "none"
    /\ sentiment_analyzer
    /\ \E t \in Texts, out \in SentimentOutcomes :
          /\ ~PrimaryPathReturns(TRUE, out)
          /\ text' = t
          /\ scorer' = out
          /\ sentiment_result' = analyze_sentiment(TRUE, t, out)
    /\ called' = "analyze_sentiment"
    /\ emotion_scorer' = None
    /\ parser' = None
    /\ profile' = None
    /\ UNCHANGED <<sentiment_analyzer, emotion_analyzer, nlp>>
    /\ UNCHANGED <<playlistVars, apiVars, concurrentVars>>

\* AnalyzeFullMoodLoaded with a parser that is dropped once it has raised
AnalyzeFullMoodLoaded_DropsFailedParser ==
    /\ called = "none"
    /\ sentiment_analyzer
    /\ \E t \in Texts, so \in ProfileSentimentOutcomes, eo \in EmotionOutcomes,
          po \in ParserOutcomes :
          /\ text' = t
          /\ scorer' = so
          /\ emotion_scorer' = eo
          /\ parser' = po
          /\ profile' = analyze_full_mood(<<sentiment_analyzer, emotion_analyzer, nlp>>,
                                          t, so, eo, po)
          /\ nlp' = (po.kind = "value")
    /\ called' = "analyze_full_mood"
    /\ sentiment_result' = None
    /\ UNCHANGED <<sentiment_analyzer, emotion_analyzer>>
    /\ UNCHANGED <<playlistVars, apiVars, concurrentVars>>

\* analyze_full_mood with the models loaded: lines 139-202
AnalyzeFullMoodLoaded ==
    /\ called = "none"
    /\ sentiment_analyzer
    /\ \E t \in Texts, so \in ProfileSentimentOutcomes, eo \in EmotionOutcomes,
          po \in ParserOutcomes :
          /\ text' = t
          /\ scorer' = so
          /\ emotion_scorer' = eo
          /\ parser' = po
          /\ profile' = analyze_full_mood(<<sentiment_analyzer, emotion_analyzer, nlp>>,
                                          t, so, eo, po)
    /\ called' = "analyze_full_mood"
    /\ sentiment_result' = None
    /\ UNCHANGED <<sentiment_analyzer, emotion_analyzer, nlp>>
    /\ UNCHANGED <<playlistVars, apiVars, concurrentVars>>

\* analyze_full_mood with the models not loaded
AnalyzeFullMoodUnloaded ==
    /\ called = "none"
    /\ ~sentiment_analyzer
    /\ \E t \in Texts :
          /\ text' = t
          /\ profile' = analyze_full_mood(<<sentiment_analyzer, emotion_analyzer, nlp>>,
                                          t, None, None, None)
    /\ called' = "analyze_full_mood"
    /\ scorer' = None
    /\ emotion_scorer' = None
    /\ parser' = None
    /\ sentiment_result' = None
    /\ UNCHANGED <<sentiment_analyzer, emotion_analyzer, nlp>>
    /\ UNCHANGED <<playlistVars, apiVars, concurrentVars>>

\* analyze_full_mood called once more with the same text, the adapters
\* answering as they did in the call before
AnalyzeFullMoodAgain ==
    /\ called = "analyze_full_mood"
    /\ called' = "analyze_full_mood_again"
    /\ profile' = analyze_full_mood(<<sentiment_analyzer, emotion_analyzer, nlp>>,
                                    text, scorer, emotion_scorer, parser)
    /\ UNCHANGED <<text, scorer, emotion_scorer, parser, sentiment_result>>
    /\ UNCHANGED <<sentiment_analyzer, emotion_analyzer, nlp>>
    /\ UNCHANGED <<playlistVars, apiVars, concurrentVars>>

\* the analyzer keeps nothing between calls: the next request starts from
\* the state the constructor left
NextAnalysis ==
    /\ called # "none"
    /\ called' = "none"
    /\ text' = ""
    /\ scorer' = None
    /\ emotion_scorer' = None
    /\ parser' = None
    /\ sentiment_result' = None
    /\ profile' = None
    /\ UNCHANGED <<sentiment_analyzer, emotion_analyzer, nlp>>
    /\ UNCHANGED <<playlistVars, apiVars, concurrentVars>>

NextAnalyzer ==
    \/ AnalyzeSentimentUnloaded
    \/ AnalyzeSentimentPrimary
    \/ AnalyzeSentimentScorerFails
    \/ AnalyzeFullMoodLoaded
    \/ AnalyzeFullMoodUnloaded
    \/ AnalyzeFullMoodAgain
    \/ NextAnalysis

SpecAnalyzer == InitAnalyzer /\ [][NextAnalyzer]_vars

----------------------------------------------------------------------------
(* _get_tags_from_mood called on its own.                                   *)

----------------------------------------------------------------------------
(* The dominant emotion of both readers of profile.emotions:                *)
(* _get_tags_from_mood (lines 94-98) and _generate_playlist_name (lines     *)
(* 213-216), applied to one profile.                                        *)

\* emotions mappings with the maximum shared, at the front and further back
TiedEmotionMappings ==
    { << <<"joy", Frac(3, 10)>>, <<"fear", Frac(6, 10)>>, <<"anger", Frac(6, 10)>> >>,
      << <<"anger", Frac(6, 10)>>, <<"fear", Frac(6, 10)>>, <<"joy", Frac(3, 10)>> >>,
      << <<"calm", Frac(1, 2)>>, <<"sadness", Frac(1, 2)>>, <<"joy", Frac(1, 2)>> >>,
      << <<"love", Frac(1, 10)>>, <<"JOY", Frac(4, 10)>>, <<"joy", Frac(4, 10)>> >> }

\* profiles with a non-empty emotions mapping and a palette of colour codes
EmotionProfiles ==
    { [sentiment |-> s, energy_level |-> e, emotions |-> em, color_palette |-> cp] :
        s \in Sentiments, e \in {"high", "low"},
        em \in (EmotionMappings \cup TiedEmotionMappings) \ {<<>>},
        cp \in { <<>>, <<"#DDDDDD", "#AAAAAA", "#888888", "#666666", "#444444">> } }
    \cup { [emotions |-> em] : em \in TiedEmotionMappings }

\* both functions called on one profile, as get_mood_playlist does at lines
\* 140 and 199; dominant_emotion records the local of that name of
\* _get_tags_from_mood (line 96) and of _generate_playlist_name (line 216)
PickDominantEmotion ==
    /\ pc = "idle"
    /\ \E m \in EmotionProfiles :
          /\ mood_analysis' = m
          /\ tags' = _get_tags_from_mood(m)
          /\ result' = [playlist_name |-> _generate_playlist_name(m),
                        dominant_emotion |-> [tags |-> DominantEmotion(m),
                                              name |-> Capitalize(DominantEmotion(m))]]
    /\ pc' = "picked"
    /\ UNCHANGED <<CLIENT_ID, limit, attempt, data, requests, responses, catalog>>
    /\ UNCHANGED <<analyzerVars, apiVars, concurrentVars>>

NextDominant == PickDominantEmotion \/ NextCall

SpecDominant == Init /\ [][NextDominant]_vars

----------------------------------------------------------------------------
(* get_mood_playlist on every profile of the tag mapper, against a catalog  *)
(* that holds no track: what the call searches for.                         *)

EmptyCatalog(ts) == [s \in AttemptStrings(ts) |-> 0]

\* get_mood_playlist up to the search loop: lines 130-150
BeginSearch ==
    /\ pc = "idle"
    /\ CLIENT_ID # ""
    /\ \E m \in Profiles :
          /\ ~TagsRaise(m)
          /\ mood_analysis' = m
          /\ tags' = _get_tags_from_mood(m)
          /\ catalog' = EmptyCatalog(_get_tags_from_mood(m))
    /\ limit' = 10
    /\ data' = None
    /\ attempt' = 1
    /\ requests' = <<>>
    /\ responses' = <<>>
    /\ result' = None
    /\ pc' = "search"
    /\ UNCHANGED CLIENT_ID
    /\ UNCHANGED <<analyzerVars, apiVars, concurrentVars>>

\* get_mood_playlist when _get_tags_from_mood raises: line 140
BeginSearchRaises ==
    /\ pc = "idle"
    /\ CLIENT_ID # ""
    /\ \E m \in Profiles :
          /\ TagsRaise(m)
          /\ mood_analysis' = m
    /\ limit' = 10
    /\ requests' = <<>>
    /\ responses' = <<>>
    /\ result' = None
    /\ pc' = "raised"
    /\ UNCHANGED <<CLIENT_ID, tags, attempt, data, catalog>>
    /\ UNCHANGED <<analyzerVars, apiVars, concurrentVars>>

NextSearch ==
    \/ BeginSearch
    \/ BeginSearchRaises
    \/ RequestFails
    \/ RequestAnswered
    \/ RequestAnsweredWithoutResults
    \/ GetMoodPlaylistReturn
    \/ NextCall

SpecSearch == Init /\ [][NextSearch]_vars

GetTagsReturns ==
    /\ pc = "idle"
    /\ \E m \in Profiles :
          /\ ~TagsRaise(m)
          /\ mood_analysis' = m
          /\ tags' = _get_tags_from_mood(m)
    /\ pc' = "done"
    /\ UNCHANGED <<CLIENT_ID, limit, attempt, data, requests, responses, catalog, result>>
    /\ UNCHANGED <<analyzerVars, apiVars, concurrentVars>>

GetTagsRaises ==
    /\ pc = "idle"
    /\ \E m \in Profiles :
          /\ TagsRaise(m)
          /\ mood_analysis' = m
    /\ pc' = "raised"
    /\ UNCHANGED <<CLIENT_ID, limit, tags, attempt, data, requests, responses, catalog, result>>
    /\ UNCHANGED <<analyzerVars, apiVars, concurrentVars>>

NextTags == GetTagsReturns \/ GetTagsRaises \/ NextCall

SpecTags == Init /\ [][NextTags]_vars

----------------------------------------------------------------------------
(* Properties of get_mood_playlist, checked under SpecPlaylist.             *)

IsErrorShape(r) ==
    /\ DOMAIN r = {"error", "playlist_name", "tracks"}
    /\ r.tracks = <<>>

IsSuccessShape(r) ==
    DOMAIN r = {"playlist_name", "mood_tags", "total_tracks", "tracks", "sentiment", "energy"}

\* an attempt that ended without a track: a failed request or an empty result list
EndedWithoutTrack(d) == d = None \/ ("results" \in DOMAIN d /\ d.results = <<>>)

\* an attempt that returned at least one track
ReturnedTrack(d) == d # None /\ "results" \in DOMAIN d /\ d.results # <<>>

\* the tag string expected on the k-th request of a call whose mapped tags are ts
ExpectedTagString(ts, k) ==
    IF k = 4 THEN "instrumental"
    ELSE Join(SubSeq(ts, 1, Min(4 - k, Len(ts))), ",")

\* C1: with a credential, a call whose every search attempt ended without a
\* track (failed request or empty result list) returns the error shape and
\* never the success shape.
C1_ExhaustionReturnsErrorShape ==
    (/\ pc = "done"
     /\ CLIENT_ID # ""
     /\ \A i \in 1..Len(responses) : EndedWithoutTrack(responses[i]))
    => (IsErrorShape(result) /\ ~IsSuccessShape(result))

\* C2: the requests of one call carry, in order, the first 3 mapped tags, the
\* first 2, the first 1, then "instrumental"; a request is issued only after
\* every earlier one returned no track, so none follows the first attempt that
\* returned a track.
C2_AttemptsInOrderUntilFirstHit ==
    pc \in {"search", "loop_end", "done"} =>
        /\ Len(requests) <= 4
        /\ Len(responses) = Len(requests)
        /\ \A k \in 1..Len(requests) :
              requests[k].tags = ExpectedTagString(tags, k)
        /\ \A k \in 1..(Len(requests) - 1) : ~ReturnedTrack(responses[k])

C2_Witness ==
    /\ pc = "done"
    /\ Len(requests) = 3
    /\ ReturnedTrack(responses[3])
    /\ Len(tags) = 5

\* C3: without a credential the call returns a non-empty error and no tracks,
\* for any profile and limit, and issues no catalog request.
C3_NoCredentialNoRequest ==
    CLIENT_ID = "" =>
        /\ requests = <<>>
        /\ pc \in {"idle", "done"}
        /\ pc = "done" =>
              /\ "error" \in DOMAIN result
              /\ result.error # ""
              /\ result.tracks = <<>>

C3_Witness ==
    /\ CLIENT_ID = ""
    /\ pc = "done"
    /\ mood_analysis.color_palette = <<"#GGFF00", "#102030">>
    /\ limit = 1

\* the catalog has no track for the full search and some for "instrumental",
\* and every request of the finished call was answered from the catalog
FullSearchEmptyInstrumentalNot ==
    /\ pc = "done"
    /\ CLIENT_ID # ""
    /\ catalog[ExpectedTagString(tags, 1)] = 0
    /\ catalog["instrumental"] > 0
    /\ \A k \in 1..Len(responses) :
          responses[k] # None /\ "results" \in DOMAIN responses[k]

ReturnsInstrumentalTracks ==
    /\ IsSuccessShape(result)
    /\ "error" \notin DOMAIN result
    /\ Len(result.tracks) = catalog["instrumental"]
    /\ \A i \in 1..Len(result.tracks) :
          /\ result.tracks[i].id = CatalogTrack("instrumental", i).id
          /\ result.tracks[i].name = CatalogTrack("instrumental", i).name

\* C4 as stated: when the full search returns zero results and the
\* "instrumental" search returns at least one, the call returns the tracks of
\* the "instrumental" search in the success shape.
C4_Original == FullSearchEmptyInstrumentalNot => ReturnsInstrumentalTracks

\* C4 amended: when the first-3, first-2 and first-1 searches all return zero
\* results and the "instrumental" search returns at least one, the call
\* returns the tracks of the "instrumental" search in the success shape.
C4_InstrumentalFallback ==
    (/\ FullSearchEmptyInstrumentalNot
     /\ \A k \in 1..3 : catalog[ExpectedTagString(tags, k)] = 0)
    => ReturnsInstrumentalTracks

C4_Witness ==
    /\ FullSearchEmptyInstrumentalNot
    /\ \A k \in 1..3 : catalog[ExpectedTagString(tags, k)] = 0
    /\ Len(requests) = 4
    /\ Len(result.tracks) = 2

\* C5: with a credential one call issues between 1 and 4 requests and no two
\* of them carry the same tag string.
C5_DistinctRelaxedRequests ==
    (pc \in {"loop_end", "done"} /\ CLIENT_ID # "") =>
        /\ Len(requests) \in 1..4
        /\ \A i, j \in 1..Len(requests) :
              i # j => requests[i].tags # requests[j].tags

----------------------------------------------------------------------------
(* Properties of _get_tags_from_mood, checked under SpecTags.               *)

\* the ids of the tracks of a response, in order
TrackIds(d) == [i \in 1..Len(d.results) |-> d.results[i].id]

\* C24: a failed request on an earlier attempt does not end the call: the
\* next attempt is issued with the next tag string; when a later attempt
\* returns a track the call returns the success shape with the tracks of
\* that attempt; the response of the last attempt issued decides the shape.
C24_FailedRequestDoesNotEndSearch ==
    (pc = "done" /\ CLIENT_ID # "") =>
        LET n == Len(responses)
            last == responses[n]
        IN  /\ n >= 1
            /\ \A k \in 1..n :
                  (responses[k] = None /\ k < 4) =>
                      /\ n >= k + 1
                      /\ requests[k + 1].tags = ExpectedTagString(tags, k + 1)
            /\ ReturnedTrack(last) =>
                  /\ IsSuccessShape(result)
                  /\ [i \in 1..Len(result.tracks) |-> result.tracks[i].id] = TrackIds(last)
            /\ (last = None \/ "results" \notin DOMAIN last) <=> IsErrorShape(result)
            /\ (last # None /\ "results" \in DOMAIN last) <=> IsSuccessShape(result)

\* two failed requests, then the first-tag search returns tracks
C24_Witness ==
    /\ pc = "done"
    /\ Len(responses) = 3
    /\ responses[1] = None
    /\ responses[2] = None
    /\ ReturnedTrack(responses[3])
    /\ IsSuccessShape(result)
    /\ result.total_tracks = MaxTracks

NoDuplicates(ts) == \A i, j \in 1..Len(ts) : i # j => ts[i] # ts[j]

\* every palette entry that starts with '#' continues with two hexadecimal digits
HexPalette(m) ==
    LET cp == Get(m, "color_palette", <<>>)
    IN  \A i \in 1..Len(cp) :
            CharAt(cp[i], 1) = "#" =>
                /\ Len(cp[i]) >= 3
                /\ \A j \in 2..3 : LowerChar(CharAt(cp[i], j)) \in Range(HexDigits)

\* C6 as stated: for any profile the call returns a list of 1 to 5 tags
\* with no tag occurring twice.
C6_Original ==
    pc # "idle" =>
        /\ pc = "done"
        /\ Len(tags) \in 1..5
        /\ NoDuplicates(tags)

\* C6 amended: for any profile whose palette entries starting with '#'
\* continue with two hexadecimal digits, the call returns a list of 1 to 5
\* tags with no tag occurring twice.
C6_TagListBounds ==
    (pc # "idle" /\ HexPalette(mood_analysis)) =>
        /\ pc = "done"
        /\ Len(tags) \in 1..5
        /\ NoDuplicates(tags)

C6_Witness ==
    /\ pc = "done"
    /\ HexPalette(mood_analysis)
    /\ "sentiment" \in DOMAIN mood_analysis
    /\ mood_analysis.sentiment = "mixed"
    /\ Len(tags) = 5
    /\ Len(BaseTags(mood_analysis) \o EmotionTags(mood_analysis) \o VibeTags(mood_analysis)) > 5

----------------------------------------------------------------------------
(* Properties of the tag mapper and the playlist name.                      *)

\* base tags, then the dominant emotion's tags, then the vibe's genres
TagConcatenation(m) ==
    LET key == (IF "sentiment" \in DOMAIN m THEN m.sentiment ELSE "neutral") \o "-"
               \o (IF "energy_level" \in DOMAIN m THEN m.energy_level ELSE "low")
        base == IF key \in DOMAIN MOOD_TAG_MAP THEN MOOD_TAG_MAP[key] ELSE <<"chill">>
    IN  base \o EmotionTags(m) \o VibeTags(m)

\* the positions of c that hold a tag not seen at an earlier position
FirstOccurrences(c) == {i \in 1..Len(c) : \A j \in 1..(i - 1) : c[j] # c[i]}

\* r lists the tags at the first n first-occurrence positions of c, in order
IsFirstDistinct(r, c, n) ==
    /\ Len(r) = n
    /\ \A k \in 1..n : \E i \in FirstOccurrences(c) :
          /\ Cardinality({j \in FirstOccurrences(c) : j < i}) = k - 1
          /\ r[k] = c[i]

\* C19: _get_tags_from_mood returns the first 5 elements of the sequence
\* obtained by concatenating base tags, the dominant emotion's tags and the
\* colour vibe's genres and removing every later occurrence of a tag
\* already seen, in concatenation order.
C19_TagsAreFirstFiveDistinct ==
    (pc = "done" /\ result = None /\ mood_analysis # None) =>
        LET c == TagConcatenation(mood_analysis)
            n == IF Cardinality(FirstOccurrences(c)) < 5
                 THEN Cardinality(FirstOccurrences(c)) ELSE 5
        IN  IsFirstDistinct(tags, c, n)

\* an unknown key with sadness dominant and a pastel palette: chill, the four
\* sadness tags, and the genres cut off, "acoustic" among them a second time
C19_Witness ==
    /\ pc = "done"
    /\ result = None
    /\ mood_analysis # None
    /\ Len(TagConcatenation(mood_analysis)) > 5
    /\ Cardinality(FirstOccurrences(TagConcatenation(mood_analysis)))
          < Len(TagConcatenation(mood_analysis))
    /\ tags = <<"chill", "sad", "emotional", "slow", "acoustic">>

\* label l holds the largest score of the mapping and no item before the
\* first item of l holds that score
IsFirstMaximum(l, emotions) ==
    \E i \in 1..Len(emotions) :
        /\ emotions[i][1] = l
        /\ \A j \in 1..Len(emotions) :
              emotions[j][2][1] * emotions[i][2][2] <= emotions[i][2][1] * emotions[j][2][2]
        /\ \A j \in 1..(i - 1) :
              emotions[j][2][1] * emotions[i][2][2] < emotions[i][2][1] * emotions[j][2][2]

\* the tag list for a profile whose dominant emotion is l
TagsWithEmotion(m, l) ==
    LET key == (IF "sentiment" \in DOMAIN m THEN m.sentiment ELSE "neutral") \o "-"
               \o (IF "energy_level" \in DOMAIN m THEN m.energy_level ELSE "low")
        base == IF key \in DOMAIN MOOD_TAG_MAP THEN MOOD_TAG_MAP[key] ELSE <<"chill">>
        emotion == IF l \in DOMAIN MOOD_TAG_MAP THEN MOOD_TAG_MAP[l] ELSE <<>>
    IN  base \o emotion \o VibeTags(m)

\* the name for a profile whose dominant emotion is l
NameWithEmotion(m, l) ==
    LET s == IF "sentiment" \in DOMAIN m THEN m.sentiment ELSE "neutral"
        e == IF "energy_level" \in DOMAIN m THEN m.energy_level ELSE "low"
    IN  IF s = "positive" /\ e = "high" THEN "Energized & " \o Capitalize(l)
        ELSE IF s = "positive" /\ e = "low" THEN "Peaceful " \o Capitalize(l)
        ELSE IF s = "negative" /\ e = "high" THEN "Intense " \o Capitalize(l)
        ELSE IF s = "negative" /\ e = "low" THEN "Reflective " \o Capitalize(l)
        ELSE IF s = "neutral" /\ e = "high" THEN "Focused Flow"
        ELSE IF s = "neutral" /\ e = "low" THEN "Chill Zone"
        ELSE Capitalize(s) \o " " \o Capitalize(e) \o " Mix"

\* C23: the dominant emotion used by _get_tags_from_mood and by
\* _generate_playlist_name is the label with the maximum score of
\* profile.emotions, the first in insertion order when several labels share
\* the maximum; both functions pick the same label for the same profile, and
\* the tags and the name returned are the ones of that label.
C23_DominantEmotionFirstMaximum ==
    pc = "picked" =>
        LET l == result.dominant_emotion.tags
            c == TagsWithEmotion(mood_analysis, l)
            n == IF Cardinality(FirstOccurrences(c)) < 5
                 THEN Cardinality(FirstOccurrences(c)) ELSE 5
        IN  /\ IsFirstMaximum(l, mood_analysis.emotions)
            /\ \A k \in {x[1] : x \in Range(mood_analysis.emotions)} :
                  IsFirstMaximum(k, mood_analysis.emotions) => k = l
            /\ result.dominant_emotion.name = Capitalize(l)
            /\ IsFirstDistinct(tags, c, n)
            /\ result.playlist_name = NameWithEmotion(mood_analysis, l)

\* three emotions with the maximum shared by the second and the third: the
\* second is dominant, its tags follow the base tag and it is not in the name
C23_Witness ==
    /\ pc = "picked"
    /\ Len(mood_analysis.emotions) = 3
    /\ mood_analysis.emotions[2][2] = mood_analysis.emotions[3][2]
    /\ mood_analysis.emotions[1][2] # mood_analysis.emotions[2][2]
    /\ result.dominant_emotion.tags = "fear"
    /\ result.dominant_emotion.name = "Fear"
    /\ "sentiment" \in DOMAIN mood_analysis
    /\ mood_analysis.sentiment = "mixed"
    /\ SubSeq(tags, 1, 4) = <<"chill", "ambient", "electronic", "dark">>
    /\ result.playlist_name = "Mixed High Mix"

\* entry t of the result is the catalog's track r with the keys renamed
IsFormatted(t, r) ==
    /\ t.id = r.id
    /\ t.name = r.name
    /\ t.artist = r.artist_name
    /\ t.album = r.album_name
    /\ t.duration = r.duration
    /\ t.audio_url = r.audio
    /\ t.image_url = r.image
    /\ t.license = r.license_ccurl

\* C25: in every success result total_tracks is the number of entries of
\* tracks, tracks holds one entry per result of the attempt that ended the
\* search, in the same order, and mood_tags is the full mapped tag list of
\* the profile (up to 5 tags), whichever attempt produced the tracks.
C25_SuccessResultConsistent ==
    (pc = "done" /\ CLIENT_ID # "" /\ IsSuccessShape(result)) =>
        LET last == responses[Len(responses)]
            c == TagConcatenation(mood_analysis)
            n == IF Cardinality(FirstOccurrences(c)) < 5
                 THEN Cardinality(FirstOccurrences(c)) ELSE 5
        IN  /\ result.total_tracks = Len(result.tracks)
            /\ Len(result.tracks) = Len(last.results)
            /\ \A i \in 1..Len(result.tracks) : IsFormatted(result.tracks[i], last.results[i])
            /\ IsFirstDistinct(result.mood_tags, c, n)
            /\ Len(result.mood_tags) <= 5

\* tracks found by the "instrumental" search for a profile that maps to five
\* tags: the result lists the five tags, none of which found a track
C25_Witness ==
    /\ pc = "done"
    /\ IsSuccessShape(result)
    /\ Len(requests) = 4
    /\ requests[4].tags = "instrumental"
    /\ result.total_tracks = 2
    /\ result.tracks[2].id = "instrumental/2"
    /\ Len(result.mood_tags) = 5
    /\ "instrumental" \notin Range(result.mood_tags)

TableKeys ==
    {"positive-high", "positive-low", "negative-high", "negative-low",
     "neutral-high", "neutral-low"}

\* "{sentiment}-{energy_level}" of the profile of the running call
ProfileKey ==
    (IF "sentiment" \in DOMAIN mood_analysis THEN mood_analysis.sentiment ELSE "neutral")
    \o "-" \o
    (IF "energy_level" \in DOMAIN mood_analysis THEN mood_analysis.energy_level ELSE "low")

\* the tag string the k-th of the first three attempts sends for a table key
KeyTagString(key, k) == Join(SubSeq(MOOD_TAG_MAP[key], 1, 4 - k), ",")

\* the requests sent so far carry the tag strings of the key
RequestsFollowKey ==
    \A k \in 1..Min(3, Len(requests)) : requests[k].tags = KeyTagString(ProfileKey, k)

NameSentiment(m) == IF "sentiment" \in DOMAIN m THEN m.sentiment ELSE "neutral"

NameEnergy(m) == IF "energy_level" \in DOMAIN m THEN m.energy_level ELSE "low"

\* the emotions mapping of the profile is absent or empty
NoEmotions(m) == "emotions" \notin DOMAIN m \/ m.emotions = <<>>

\* the label with the largest score, the first one listed among equals
FirstLargest(emotions) ==
    LET i == CHOOSE i \in 1..Len(emotions) :
                 /\ \A j \in 1..Len(emotions) :
                       emotions[j][2][1] * emotions[i][2][2] <= emotions[i][2][1] * emotions[j][2][2]
                 /\ \A j \in 1..(i - 1) :
                       emotions[j][2][1] * emotions[i][2][2] < emotions[i][2][1] * emotions[j][2][2]
    IN  emotions[i][1]

\* the word a positive or negative template carries
TemplateWord(m, default) ==
    IF NoEmotions(m) THEN default ELSE Capitalize(FirstLargest(m.emotions))

ExpectedPlaylistName(m) ==
    LET s == NameSentiment(m)
        e == NameEnergy(m)
    IN  IF s = "positive" /\ e = "high" THEN "Energized & " \o TemplateWord(m, "Joyful")
        ELSE IF s = "positive" /\ e = "low" THEN "Peaceful " \o TemplateWord(m, "Calm")
        ELSE IF s = "negative" /\ e = "high" THEN "Intense " \o TemplateWord(m, "Power")
        ELSE IF s = "negative" /\ e = "low" THEN "Reflective " \o TemplateWord(m, "Melancholy")
        ELSE IF s = "neutral" /\ e = "high" THEN "Focused Flow"
        ELSE IF s = "neutral" /\ e = "low" THEN "Chill Zone"
        ELSE Capitalize(s) \o " " \o Capitalize(e) \o " Mix"

\* C20: _generate_playlist_name returns the first template of the entry for
\* "{sentiment}-{energy_level}": with the capitalized dominant emotion (or the
\* default word when there are no emotions) for the positive and negative
\* keys, a fixed name for the neutral keys, "<Sentiment> <Energy> Mix" for
\* any other key; the success shape and the 'Failed to fetch tracks' error
\* shape carry that same name.
C20_PlaylistName ==
    /\ pc = "named" => result.playlist_name = ExpectedPlaylistName(mood_analysis)
    /\ (pc = "done" /\ CLIENT_ID # "") =>
          /\ result.playlist_name = ExpectedPlaylistName(mood_analysis)
          /\ "error" \in DOMAIN result => result.error = "Failed to fetch tracks"

\* a success result named after the dominant emotion of a positive-high profile
C20_Witness ==
    /\ pc = "done"
    /\ "total_tracks" \in DOMAIN result
    /\ result.total_tracks > 0
    /\ mood_analysis.emotions # <<>>
    /\ result.playlist_name = "Energized & Joy"

----------------------------------------------------------------------------
(* Lines 162-199 of analyze_full_mood on their own: the lookups applied to  *)
(* a sentiment result, for sentiment and energy values inside and outside   *)
(* the tables.                                                              *)

LookupSentiments == {"positive", "negative", "neutral", "angry", "LABEL_3", ""}

LookupEnergies == {"high", "low", "medium", ""}

LookupConfidences == {Frac(40, 100), Frac(75, 100)}

\* sentiment results with and without the optional keys read by .get()
LookupResults ==
    {[sentiment |-> s, confidence |-> c, energy |-> e, combined_label |-> s \o "-" \o e,
      scores |-> << <<s, c>> >>] :
        s \in LookupSentiments, e \in LookupEnergies, c \in LookupConfidences}
    \cup {[sentiment |-> s, confidence |-> c, scores |-> << <<s, c>> >>] :
        s \in LookupSentiments, c \in LookupConfidences}

InitLookup ==
    /\ sentiment_result \in LookupResults
    /\ sentiment_analyzer = FALSE
    /\ emotion_analyzer = FALSE
    /\ nlp = FALSE
    /\ called = "none"
    /\ text = ""
    /\ scorer = None
    /\ emotion_scorer = None
    /\ parser = None
    /\ profile = None
    /\ CLIENT_ID = ""
    /\ pc = "idle"
    /\ mood_analysis = None
    /\ limit = 0
    /\ tags = <<>>
    /\ attempt = 0
    /\ data = None
    /\ requests = <<>>
    /\ responses = <<>>
    /\ catalog = <<>>
    /\ result = None
    /\ request = None
    /\ response = None
    /\ entries = <<>>
    /\ next_id = 1
    /\ loading = "done"
    /\ calls = <<>>
    /\ users = <<>>
    /\ registrations = <<>>

\* lines 162-199 applied to the sentiment result
BuildProfileFromResult ==
    /\ called = "none"
    /\ called' = "build_profile"
    /\ profile' = BuildProfile(sentiment_result, <<>>, <<>>)
    /\ UNCHANGED <<sentiment_analyzer, emotion_analyzer, nlp, text, scorer, emotion_scorer,
                   parser, sentiment_result>>
    /\ UNCHANGED <<playlistVars, apiVars, concurrentVars>>

NextLookup == BuildProfileFromResult

SpecLookup == InitLookup /\ [][NextLookup]_vars

----------------------------------------------------------------------------
(* The mood endpoints of backend/app/api/moods.py.  A handler runs as one   *)
(* step: validation, the analyzer call, the insert and commit, and the      *)
(* except clause that turns whatever the try block raised into a response.  *)

RECURSIVE LStrip(_)
LStrip(s) ==
    IF Len(s) > 0 /\ IsSpace(CharAt(s, 1)) THEN LStrip(SubSeq(s, 2, Len(s))) ELSE s

RECURSIVE RStrip(_)
RStrip(s) ==
    IF Len(s) > 0 /\ IsSpace(CharAt(s, Len(s))) THEN RStrip(SubSeq(s, 1, Len(s) - 1)) ELSE s

\* str.strip()
Strip(s) == RStrip(LStrip(s))

HTTPException(status_code, detail) == [status_code |-> status_code, detail |-> detail]

\* the test of lines 52 and 74
TextTooShort(t) == t = "" \/ Len(Strip(t)) < 3

\* line 53 and line 75
ValidationError == HTTPException(400, "Text must be at least 3 characters long")

\* lines 59-61: except Exception catches everything the try block raised,
\* the HTTPException of line 53 included, and raises the 500 response
analyze_mood_public_except(raised) == HTTPException(500, "Failed to analyze mood")

\* lines 103-106
analyze_and_save_mood_except(raised) == HTTPException(500, "Failed to analyze and save mood")

\* MoodAnalysisResponse(**analysis) as the response body
MoodAnalysisResponse(analysis) == [status_code |-> 200, body |-> analysis]

\* MoodEntry(...) of lines 81-96 with the primary key assigned on commit
MoodEntry(id, user_id, text_content, analysis) ==
    [id |-> id,
     user_id |-> user_id,
     text_content |-> text_content,
     sentiment |-> analysis.sentiment,
     sentiment_confidence |-> analysis.sentiment_confidence,
     energy_level |-> analysis.energy_level,
     emotions |-> analysis.emotions,
     keywords |-> analysis.keywords,
     color_palette |-> analysis.color_palette,
     art_style |-> analysis.art_style,
     music_mood |-> analysis.music_mood,
     ai_insight |-> analysis.ai_insight]

Users == {1, 2}

RequestTexts == {"", "  ", "ab", " ab \t", "a b", "sad", "  love "}

\* what the three adapters do during a request
AdapterOutcomes ==
    { <<[kind |-> "raises"], [kind |-> "raises"], [kind |-> "raises"]>>,
      <<Value(TRUE, <<Entry("LABEL_2", 75)>>),
        Value(TRUE, <<Entry("joy", 90), Entry("sadness", 5)>>),
        [kind |-> "value", noun_chunks |-> <<"I", "a Good day">>, adjectives |-> <<"Good">>]>> }

\* the outcomes as the analyzer sees them: nothing is called on a model that is not loaded
Seen(loaded, out) == IF loaded THEN out ELSE None

InitApi ==
    /\ sentiment_analyzer \in BOOLEAN
    /\ emotion_analyzer = sentiment_analyzer
    /\ nlp = sentiment_analyzer
    /\ called = "none"
    /\ text = ""
    /\ scorer = None
    /\ emotion_scorer = None
    /\ parser = None
    /\ sentiment_result = None
    /\ profile = None
    /\ request = None
    /\ response = None
    /\ entries = <<>>
    /\ next_id = 1
    /\ loading = "done"
    /\ calls = <<>>
    /\ users = <<>>
    /\ registrations = <<>>
    /\ CLIENT_ID = ""
    /\ pc = "idle"
    /\ mood_analysis = None
    /\ limit = 0
    /\ tags = <<>>
    /\ attempt = 0
    /\ data = None
    /\ requests = <<>>
    /\ responses = <<>>
    /\ catalog = <<>>
    /\ result = None

\* POST /analyze with a text that fails the test of line 51
AnalyzeMoodPublicTooShort ==
    /\ request = None
    /\ \E t \in RequestTexts :
          /\ TextTooShort(t)
          /\ request' = [endpoint |-> "/analyze", text |-> t]
    /\ response' = analyze_mood_public_except(ValidationError)
    /\ UNCHANGED <<entries, next_id>>
    /\ UNCHANGED <<analyzerVars, playlistVars, concurrentVars>>

\* POST /analyze with a text that passes: lines 55-57
AnalyzeMoodPublic ==
    /\ request = None
    /\ \E t \in RequestTexts, o \in AdapterOutcomes :
          /\ ~TextTooShort(t)
          /\ request' = [endpoint |-> "/analyze", text |-> t]
          /\ text' = Strip(t)
          /\ scorer' = Seen(sentiment_analyzer, o[1])
          /\ emotion_scorer' = Seen(emotion_analyzer, o[2])
          /\ parser' = Seen(nlp, o[3])
          /\ profile' = analyze_full_mood(<<sentiment_analyzer, emotion_analyzer, nlp>>,
                                          Strip(t), o[1], o[2], o[3])
    /\ called' = "analyze_full_mood"
    /\ sentiment_result' = None
    /\ response' = MoodAnalysisResponse(profile')
    /\ UNCHANGED <<entries, next_id>>
    /\ UNCHANGED <<sentiment_analyzer, emotion_analyzer, nlp>>
    /\ UNCHANGED <<playlistVars, concurrentVars>>

\* POST /analyze-and-save with a text that fails the test of line 77
AnalyzeAndSaveTooShort ==
    /\ request = None
    /\ \E t \in RequestTexts, u \in Users :
          /\ TextTooShort(t)
          /\ request' = [endpoint |-> "/analyze-and-save", text |-> t, current_user |-> u]
    /\ response' = analyze_and_save_mood_except(ValidationError)
    /\ UNCHANGED <<entries, next_id>>
    /\ UNCHANGED <<analyzerVars, playlistVars, concurrentVars>>

\* POST /analyze-and-save with a text that passes and a commit that succeeds
AnalyzeAndSave ==
    /\ request = None
    /\ next_id <= MaxEntries
    /\ \E t \in RequestTexts, u \in Users, o \in AdapterOutcomes :
          /\ ~TextTooShort(t)
          /\ request' = [endpoint |-> "/analyze-and-save", text |-> t, current_user |-> u]
          /\ text' = Strip(t)
          /\ scorer' = Seen(sentiment_analyzer, o[1])
          /\ emotion_scorer' = Seen(emotion_analyzer, o[2])
          /\ parser' = Seen(nlp, o[3])
          /\ profile' = analyze_full_mood(<<sentiment_analyzer, emotion_analyzer, nlp>>,
                                          Strip(t), o[1], o[2], o[3])
          /\ entries' = Append(entries, MoodEntry(next_id, u, Strip(t), profile'))
    /\ next_id' = next_id + 1
    /\ called' = "analyze_full_mood"
    /\ sentiment_result' = None
    /\ response' = MoodAnalysisResponse(profile')
    /\ UNCHANGED <<sentiment_analyzer, emotion_analyzer, nlp>>
    /\ UNCHANGED <<playlistVars, concurrentVars>>

\* POST /analyze-and-save with a commit that raises: lines 103-106
AnalyzeAndSaveCommitFails ==
    /\ request = None
    /\ \E t \in RequestTexts, u \in Users, o \in AdapterOutcomes :
          /\ ~TextTooShort(t)
          /\ request' = [endpoint |-> "/analyze-and-save", text |-> t, current_user |-> u]
          /\ text' = Strip(t)
          /\ scorer' = Seen(sentiment_analyzer, o[1])
          /\ emotion_scorer' = Seen(emotion_analyzer, o[2])
          /\ parser' = Seen(nlp, o[3])
          /\ profile' = analyze_full_mood(<<sentiment_analyzer, emotion_analyzer, nlp>>,
                                          Strip(t), o[1], o[2], o[3])
    /\ called' = "analyze_full_mood"
    /\ sentiment_result' = None
    /\ response' = analyze_and_save_mood_except([type |-> "SQLAlchemyError"])
    /\ UNCHANGED <<entries, next_id>>
    /\ UNCHANGED <<sentiment_analyzer, emotion_analyzer, nlp>>
    /\ UNCHANGED <<playlistVars, concurrentVars>>

\* the response is sent; the next request finds the analyzer and the table as they are
NextRequest ==
    /\ request # None
    /\ request' = None
    /\ response' = None
    /\ called' = "none"
    /\ text' = ""
    /\ scorer' = None
    /\ emotion_scorer' = None
    /\ parser' = None
    /\ sentiment_result' = None
    /\ profile' = None
    /\ UNCHANGED <<entries, next_id>>
    /\ UNCHANGED <<sentiment_analyzer, emotion_analyzer, nlp>>
    /\ UNCHANGED <<playlistVars, concurrentVars>>

NextApi ==
    \/ AnalyzeMoodPublicTooShort
    \/ AnalyzeMoodPublic
    \/ AnalyzeAndSaveTooShort
    \/ AnalyzeAndSave
    \/ AnalyzeAndSaveCommitFails
    \/ NextRequest

SpecApi == InitApi /\ [][NextApi]_vars

----------------------------------------------------------------------------
(* Properties of the analyzer, checked under SpecAnalyzer.                  *)

CanonicalSentiments == {"negative", "neutral", "positive"}

\* the last analyze_sentiment call returned from the try block
OnPrimaryPath ==
    /\ called = "analyze_sentiment"
    /\ sentiment_analyzer
    /\ scorer.kind = "value"
    /\ scorer.list
    /\ scorer.items # <<>>
    /\ \A i \in 1..Len(scorer.items) :
          "label" \in DOMAIN scorer.items[i] /\ "score" \in DOMAIN scorer.items[i]

\* the last analyze_sentiment call took the fallback
OnFallbackPath == called = "analyze_sentiment" /\ ~OnPrimaryPath

\* C7: every profile returned by analyze_full_mood has a sentiment among
\* negative, neutral and positive, whatever labels the scorer returns.
C7_SentimentCanonical ==
    called = "analyze_full_mood" => profile.sentiment \in CanonicalSentiments

\* c is the maximum of the scores returned
IsMaxScore(c, scores) ==
    /\ \E i \in 1..Len(scores) : scores[i][2] = c
    /\ \A i \in 1..Len(scores) : scores[i][2][1] * c[2] <= c[1] * scores[i][2][2]

\* scores holds, for each label the scorer returned, a score the scorer
\* returned for it
ScoresFromScorer(scores, items) ==
    /\ \A i \in 1..Len(scores) : \E j \in 1..Len(items) :
          /\ scores[i][1] = (IF items[j].label = "LABEL_0" THEN "negative"
                             ELSE IF items[j].label = "LABEL_1" THEN "neutral"
                             ELSE IF items[j].label = "LABEL_2" THEN "positive"
                             ELSE items[j].label)
          /\ scores[i][2] = items[j].score
    /\ Len(scores) <= Len(items)
    /\ Len(items) = 1 => Len(scores) = 1

SentimentKeys == {"sentiment", "confidence", "energy", "combined_label", "scores"}

\* C9: analyze_sentiment always returns a mapping with exactly the keys
\* sentiment, confidence, energy, combined_label and scores, and when the
\* scorer is missing, raises, returns an empty result or malformed output the
\* mapping is the result of _fallback_sentiment_analysis.
C9_AlwaysReturnsFullShape ==
    called = "analyze_sentiment" =>
        /\ sentiment_result # None
        /\ DOMAIN sentiment_result = SentimentKeys
        /\ OnFallbackPath => sentiment_result = _fallback_sentiment_analysis(text)

\* the scorer returned an entry without a label and the fallback answered
C9_Witness ==
    /\ OnFallbackPath
    /\ sentiment_analyzer
    /\ scorer.kind = "value"
    /\ scorer.list
    /\ Len(scorer.items) = 2
    /\ "label" \notin DOMAIN scorer.items[2]
    /\ sentiment_result.sentiment = "negative"

\* C10: when the sentiment scorer is unavailable the confidence returned
\* lies in [0.6, 0.95] for every text.
C10_FallbackConfidenceRange ==
    OnFallbackPath =>
        LET c == sentiment_result.confidence
        IN  10 * c[1] >= 6 * c[2] /\ 100 * c[1] <= 95 * c[2]

\* a text long enough for the lower clamp to act
C10_Witness ==
    /\ OnFallbackPath
    /\ ~sentiment_analyzer
    /\ Len(Split(text)) >= 8
    /\ sentiment_result.confidence = <<3, 5>>

----------------------------------------------------------------------------
(* Properties of the profile built by analyze_full_mood.                    *)

\* confidence >= 0.75 of the last analyze_sentiment result
HighConfidence == 100 * sentiment_result.confidence[1] >= 75 * sentiment_result.confidence[2]

\* the number of listed positive and negative words of the text
ListedWordCount ==
    CountIn(Split(Lower(text)), positive_words) + CountIn(Split(Lower(text)), negative_words)

\* C21 as stated: on both paths a confidence >= 0.75 implies energy high
C21_Original ==
    called = "analyze_sentiment" =>
        (HighConfidence => sentiment_result.energy = "high")

\* C21: on the primary path a confidence >= 0.75 implies energy high,
\* whatever the text; on the fallback path the energy is high exactly when
\* the text holds more than two listed words, whatever the confidence.
C21_HighConfidenceHighEnergy ==
    /\ OnPrimaryPath => (HighConfidence => sentiment_result.energy = "high")
    /\ OnFallbackPath => (sentiment_result.energy = "high" <=> ListedWordCount > 2)

\* a confidence above 0.75 on a text that the estimator rates low
C21_Witness ==
    /\ OnPrimaryPath
    /\ sentiment_result.confidence = <<9, 10>>
    /\ text # ""
    /\ heuristic_energy(text) = "low"
    /\ sentiment_result.energy = "high"

\* the insight the table gives for a sentiment and an energy
InsightFor(sentiment, energy) ==
    LET key == sentiment \o "-" \o energy
    IN  IF key \in DOMAIN insights THEN insights[key] ELSE default_insight

\* C22: every sentiment result has combined_label = "{sentiment}-{energy}"
\* of that result; every profile has the ai_insight of the table entry for
\* "{sentiment}-{energy_level}" of that profile, and the default insight
\* only when its sentiment is outside negative, neutral and positive.
C22_InsightFollowsCombinedLabel ==
    /\ called = "analyze_sentiment" =>
          sentiment_result.combined_label
              = sentiment_result.sentiment \o "-" \o sentiment_result.energy
    /\ called \in {"analyze_full_mood", "analyze_full_mood_again"} =>
          /\ profile.ai_insight = InsightFor(profile.sentiment, profile.energy_level)
          /\ profile.ai_insight = default_insight
                 => profile.sentiment \notin CanonicalSentiments

\* a profile with the default insight, and its sentiment is not canonical
C22_Witness ==
    /\ called = "analyze_full_mood"
    /\ profile.ai_insight = default_insight
    /\ profile.sentiment = "LABEL_3"
    /\ profile.energy_level = "high"

NonWhitespaceCount(t) == Cardinality({i \in 1..Len(t) : ~IsSpace(CharAt(t, i))})

ReturnedProfile == called \in {"analyze_full_mood", "analyze_full_mood_again"}



\* C11: for every text with at least 3 non-whitespace characters and every
\* behaviour of the scorers, analyze_full_mood returns a profile with
\* sentiment_confidence in [0,1], energy_level high or low and a
\* color_palette of exactly 5 entries.
C11_ProfileRanges ==
    (ReturnedProfile /\ NonWhitespaceCount(text) >= 3) =>
        /\ profile # None
        /\ profile.sentiment_confidence[1] >= 0
        /\ profile.sentiment_confidence[1] <= profile.sentiment_confidence[2]
        /\ profile.energy_level \in {"high", "low"}
        /\ Len(profile.color_palette) = 5

\* a profile for a label outside the table, built while the other two adapters fail
C11_Witness ==
    /\ called = "analyze_full_mood"
    /\ NonWhitespaceCount(text) >= 3
    /\ sentiment_analyzer
    /\ profile.sentiment = "LABEL_3"
    /\ emotion_scorer.kind = "raises"
    /\ parser.kind = "raises"
    /\ Len(profile.color_palette) = 5

KnownSentiments == {"positive", "negative", "neutral"}

KnownEnergies == {"high", "low"}

\* the energy the lookup uses: the result's energy, "low" when the key is absent
LookupEnergy == IF "energy" \in DOMAIN sentiment_result THEN sentiment_result.energy ELSE "low"

PresentationOf(s, e) ==
    [color_palette |-> IF s \in KnownSentiments THEN palettes[s][e] ELSE palettes["neutral"][e],
     art_style |-> IF s \in KnownSentiments THEN art_styles[s] ELSE "organic",
     music_mood |-> IF s \in KnownSentiments THEN music_moods[s] ELSE "balanced",
     ai_insight |-> IF s \in KnownSentiments THEN insights[s \o "-" \o e] ELSE default_insight]

\* C13: color_palette, art_style, music_mood and ai_insight of a profile are
\* determined by its sentiment and energy alone: every profile carries the
\* values PresentationOf gives for its (sentiment, energy_level), whatever
\* the text, the emotions and the keywords, so two runs that agree on
\* sentiment and energy agree on the four fields.
C13_PresentationFromSentimentEnergy ==
    ReturnedProfile =>
        LET p == PresentationOf(profile.sentiment, profile.energy_level)
        IN  /\ profile.color_palette = p.color_palette
            /\ profile.art_style = p.art_style
            /\ profile.music_mood = p.music_mood
            /\ profile.ai_insight = p.ai_insight

\* a negative-low profile from the word-list fallback, with keywords from the parser
C13_Witness ==
    /\ called = "analyze_full_mood"
    /\ sentiment_analyzer
    /\ scorer.kind = "raises"
    /\ profile.sentiment = "negative"
    /\ profile.energy_level = "low"
    /\ Len(profile.keywords) >= 2
    /\ Len(profile.emotions) = 2
    /\ profile.ai_insight = insights["negative-low"]

KeywordsFromWordList ==
    \/ ~nlp
    \/ parser.kind = "raises"
    \/ (parser.kind = "raises_late" /\ parser.noun_chunks = <<>>)
    \/ (parser.kind = "value" /\ parser.noun_chunks = <<>> /\ parser.adjectives = <<>>)

\* C15: the keywords of every profile are a sequence of at most 5 strings,
\* on the parser path as well as on the word-list fallback path.
C15_Original ==
    ReturnedProfile => Len(profile.keywords) <= 5

\* C15 as the code has it: at most 5 keywords on the word-list path; on the
\* parser path up to 5 noun chunks followed by up to 3 adjectives, at most 8.
C15_KeywordBounds ==
    ReturnedProfile =>
        /\ Len(profile.keywords) <= 8
        /\ KeywordsFromWordList => Len(profile.keywords) <= 5
        /\ ~KeywordsFromWordList =>
              \E n \in 0..5, m \in 0..3 :
                  /\ Len(profile.keywords) = n + m
                  /\ n = (IF Len(parser.noun_chunks) < 5 THEN Len(parser.noun_chunks) ELSE 5)
                  /\ \A i \in 1..n : profile.keywords[i] = Lower(parser.noun_chunks[i])
                  /\ \A i \in 1..m : profile.keywords[n + i] = Lower(parser.adjectives[i])

\* the parser found more than 5 noun chunks and more than 3 adjectives
C15_Witness ==
    /\ called = "analyze_full_mood"
    /\ nlp
    /\ parser.kind = "value"
    /\ Len(parser.noun_chunks) > 5
    /\ Len(parser.adjectives) > 3
    /\ Len(profile.keywords) = 8

ProfileKeys ==
    {"sentiment", "sentiment_confidence", "energy_level", "emotions", "keywords",
     "color_palette", "art_style", "music_mood", "ai_insight"}

\* a pipeline answer the try block accepts: a non-empty list of entries that
\* all carry a label and a score
UsableAnswer(out) ==
    /\ out.kind = "value"
    /\ out.list
    /\ out.items # <<>>
    /\ \A i \in 1..Len(out.items) :
          "label" \in DOMAIN out.items[i] /\ "score" \in DOMAIN out.items[i]

SentimentAdapterFailed == ~sentiment_analyzer \/ ~UsableAnswer(scorer)

EmotionAdapterFailed == ~emotion_analyzer \/ ~UsableAnswer(emotion_scorer)

\* the parser is missing, raised, or found neither noun chunks nor adjectives
ParserFailed ==
    \/ ~nlp
    \/ parser.kind \in {"raises", "raises_late"}
    \/ (parser.noun_chunks = <<>> /\ parser.adjectives = <<>>)

\* the sentiment fields and the emotions come from the fallbacks exactly
\* when their adapter failed, whatever the other adapters did
SentimentAndEmotionsDegradeAlone ==
    /\ DOMAIN profile = ProfileKeys
    /\ SentimentAdapterFailed =>
          LET f == _fallback_sentiment_analysis(text)
          IN  /\ profile.sentiment = f.sentiment
              /\ profile.sentiment_confidence = f.confidence
              /\ profile.energy_level = f.energy
    /\ ~SentimentAdapterFailed =>
          \E i \in 1..Len(scorer.items) :
              profile.sentiment_confidence = scorer.items[i].score
    /\ EmotionAdapterFailed => profile.emotions = _fallback_emotion_analysis(text)
    /\ ~EmotionAdapterFailed =>
          /\ profile.emotions # <<>>
          /\ \A i \in 1..Len(profile.emotions) : \E j \in 1..Len(emotion_scorer.items) :
                profile.emotions[i] = <<emotion_scorer.items[j].label,
                                        emotion_scorer.items[j].score>>

\* C17: analyze_full_mood returns a complete profile (all nine fields) when
\* any subset of the three adapters is missing, raises or returns an empty
\* or malformed result, and each failing adapter is replaced by its own
\* fallback independently of the other two.
C17_Original ==
    ReturnedProfile =>
        /\ SentimentAndEmotionsDegradeAlone
        /\ ParserFailed => profile.keywords = FallbackKeywords(text)

\* C17 as the code has it: the word-list fallback replaces the parser when
\* the parser path left no keyword; a parser that raises after the noun
\* chunks were taken keeps those chunks.
C17_DegradedModeComplete ==
    ReturnedProfile =>
        /\ SentimentAndEmotionsDegradeAlone
        /\ KeywordsFromWordList => profile.keywords = FallbackKeywords(text)
        /\ (nlp /\ ~KeywordsFromWordList /\ parser.kind = "raises_late") =>
              /\ Len(profile.keywords) = Len(parser.noun_chunks)
              /\ \A i \in 1..Len(profile.keywords) :
                    profile.keywords[i] = Lower(parser.noun_chunks[i])

\* the sentiment pipeline answers, the emotion pipeline raises and the
\* parser finds nothing: two fallbacks next to one primary result
C17_Witness ==
    /\ called = "analyze_full_mood"
    /\ sentiment_analyzer
    /\ ~SentimentAdapterFailed
    /\ emotion_scorer.kind = "raises"
    /\ parser.kind = "value"
    /\ parser.noun_chunks = <<>>
    /\ profile.sentiment = "positive"
    /\ profile.keywords = <<"sad">>
    /\ \E i \in 1..Len(profile.emotions) : profile.emotions[i][1] = "sadness"

KeywordEmotions == {"joy", "sadness", "anger", "fear", "surprise", "disgust"}

\* C18: the fallback emotion analysis never returns an all-near-zero result:
\* at least one label has score >= 0.1, every score lies in [0,1], and the
\* label neutral, with score 0.8, is present exactly when all six keyword
\* emotions score below 0.1.
C18_FallbackEmotionsHaveSignal ==
    (ReturnedProfile /\ EmotionAdapterFailed) =>
        LET em == profile.emotions
        IN  /\ \E i \in 1..Len(em) : 10 * em[i][2][1] >= em[i][2][2]
            /\ \A i \in 1..Len(em) : em[i][2][1] >= 0 /\ em[i][2][1] <= em[i][2][2]
            /\ {em[i][1] : i \in 1..Len(em)} \ {"neutral"} = KeywordEmotions
            /\ (\E i \in 1..Len(em) : em[i][1] = "neutral")
                  <=> (\A i \in 1..Len(em) :
                          em[i][1] \in KeywordEmotions => 10 * em[i][2][1] < em[i][2][2])
            /\ \A i \in 1..Len(em) : em[i][1] = "neutral" => em[i][2] = <<4, 5>>

\* one keyword among more than 30 words: its emotion scores above 0 and
\* below 0.1, and neutral is added
C18_Witness ==
    /\ called = "analyze_full_mood"
    /\ ~emotion_analyzer
    /\ Len(Split(text)) > 30
    /\ \E i \in 1..Len(profile.emotions) :
          /\ profile.emotions[i][1] = "sadness"
          /\ profile.emotions[i][2][1] > 0
          /\ 10 * profile.emotions[i][2][1] < profile.emotions[i][2][2]
    /\ \E i \in 1..Len(profile.emotions) : profile.emotions[i] = <<"neutral", <<4, 5>>>>

----------------------------------------------------------------------------
(* Properties of the mood endpoints, checked under SpecApi.                 *)

\* C16: a request to /analyze or /analyze-and-save whose text is empty or
\* has trimmed length below 3 is answered with status 400 and 'Text must be
\* at least 3 characters long'; the analyzer is not invoked and nothing is
\* persisted.
C16_ShortTextRejectedWith400 ==
    (request # None /\ TextTooShort(request.text)) =>
        /\ response.status_code = 400
        /\ response.detail = "Text must be at least 3 characters long"
        /\ called = "none"

----------------------------------------------------------------------------
(* The analyzer under concurrent callers.  MoodAnalyzer.__init__ runs once, *)
(* at import (line 263), before any handler can call a method; it assigns   *)
(* the three attributes in order inside one try block and the except branch *)
(* sets all three to None.  A method tests the attribute, calls the model   *)
(* when it is set, and returns; nothing but __init__ assigns an attribute.  *)

Callers == {"c1", "c2"}

Adapters == <<"sentiment", "emotion", "nlp">>

LoadTexts == {"sad", "so good"}

\* the adapters a method consults, in the order of its code
MethodAdapters(method) ==
    CASE method = "analyze_sentiment" -> <<"sentiment">>
      [] method = "analyze_emotions" -> <<"emotion">>
      [] method = "extract_keywords" -> <<"nlp">>
      [] method = "analyze_full_mood" -> Adapters

Methods == {"analyze_sentiment", "analyze_emotions", "extract_keywords", "analyze_full_mood"}

\* the truth value of self.sentiment_analyzer, self.emotion_analyzer, self.nlp
Attribute(a) ==
    CASE a = "sentiment" -> sentiment_analyzer
      [] a = "emotion" -> emotion_analyzer
      [] a = "nlp" -> nlp

\* what a model call can do: raise or answer
AdapterAnswers(a) ==
    CASE a = "sentiment" -> {[kind |-> "raises"], Value(TRUE, <<Entry("LABEL_2", 75)>>)}
      [] a = "emotion" -> {[kind |-> "raises"], Value(TRUE, <<Entry("joy", 90), Entry("sadness", 5)>>)}
      [] a = "nlp" -> {[kind |-> "raises"],
                       [kind |-> "value", noun_chunks |-> <<"A Day">>, adjectives |-> <<"Good">>]}

\* the except branch of the method ran for the adapter
AdapterFailed(a, s) ==
    /\ s.loaded
    /\ IF a = "nlp" THEN s.out.kind # "value" ELSE ~PrimaryPathReturns(TRUE, s.out)

NotConsulted == [loaded |-> FALSE, out |-> None]

NothingSeen == [sentiment |-> NotConsulted, emotion |-> NotConsulted, nlp |-> NotConsulted]

IdleCaller(failed) ==
    [step |-> "idle", method |-> "", text |-> "", todo |-> <<>>, seen |-> NothingSeen,
     result |-> None, last_failed |-> failed]

\* import of the module: the constructor is about to load the first model
InitLoad ==
    /\ loading = "sentiment"
    /\ sentiment_analyzer = FALSE
    /\ emotion_analyzer = FALSE
    /\ nlp = FALSE
    /\ calls = [c \in Callers |-> IdleCaller({})]
    /\ called = "none"
    /\ text = ""
    /\ scorer = None
    /\ emotion_scorer = None
    /\ parser = None
    /\ sentiment_result = None
    /\ profile = None
    /\ CLIENT_ID = ""
    /\ pc = "idle"
    /\ mood_analysis = None
    /\ limit = 0
    /\ tags = <<>>
    /\ attempt = 0
    /\ data = None
    /\ requests = <<>>
    /\ responses = <<>>
    /\ catalog = <<>>
    /\ result = None
    /\ request = None
    /\ response = None
    /\ entries = <<>>
    /\ next_id = 1
    /\ users = <<>>
    /\ registrations = <<>>

\* what no step of the constructor or of a method touches
LoadFrame ==
    /\ UNCHANGED <<called, text, scorer, emotion_scorer, parser, sentiment_result, profile>>
    /\ UNCHANGED <<playlistVars, apiVars, users, registrations>>

\* __init__, lines 18-32: the next model loads and its attribute is set
LoadModel ==
    /\ loading \in {"sentiment", "emotion", "nlp"}
    /\ sentiment_analyzer' = (loading = "sentiment" \/ sentiment_analyzer)
    /\ emotion_analyzer' = (loading = "emotion" \/ emotion_analyzer)
    /\ nlp' = (loading = "nlp" \/ nlp)
    /\ loading' = (CASE loading = "sentiment" -> "emotion"
                     [] loading = "emotion" -> "nlp"
                     [] loading = "nlp" -> "done")
    /\ UNCHANGED calls
    /\ LoadFrame

\* __init__, lines 37-42: a load raised and the except branch ran
LoadRaises ==
    /\ loading \in {"sentiment", "emotion", "nlp"}
    /\ sentiment_analyzer' = FALSE
    /\ emotion_analyzer' = FALSE
    /\ nlp' = FALSE
    /\ loading' = "done"
    /\ UNCHANGED calls
    /\ LoadFrame

\* a caller enters one of the four methods
BeginCall(c) ==
    /\ loading = "done"
    /\ calls[c].step = "idle"
    /\ \E method \in Methods, t \in LoadTexts :
          calls' = [calls EXCEPT ![c] = [@ EXCEPT !.step = "running", !.method = method,
                                                  !.text = t,
                                                  !.todo = MethodAdapters(method)]]
    /\ UNCHANGED <<loading, sentiment_analyzer, emotion_analyzer, nlp>>
    /\ LoadFrame

\* AdapterCalled clearing the attribute of a model whose call failed
AdapterCalled_DropsFailedAdapter(c) ==
    /\ calls[c].step = "running"
    /\ calls[c].todo # <<>>
    /\ Attribute(Head(calls[c].todo))
    /\ \E o \in AdapterAnswers(Head(calls[c].todo)) :
          LET a == Head(calls[c].todo)
              failed == AdapterFailed(a, [loaded |-> TRUE, out |-> o])
          IN  /\ calls' = [calls EXCEPT ![c] = [@ EXCEPT !.seen[a] = [loaded |-> TRUE, out |-> o],
                                                         !.todo = Tail(@)]]
              /\ sentiment_analyzer' = (sentiment_analyzer /\ ~(a = "sentiment" /\ failed))
              /\ emotion_analyzer' = (emotion_analyzer /\ ~(a = "emotion" /\ failed))
              /\ nlp' = (nlp /\ ~(a = "nlp" /\ failed))
    /\ UNCHANGED loading
    /\ LoadFrame

\* the attribute is set and the model is called: lines 64-66, 102-104, 120-122
AdapterCalled(c) ==
    /\ calls[c].step = "running"
    /\ calls[c].todo # <<>>
    /\ Attribute(Head(calls[c].todo))
    /\ \E o \in AdapterAnswers(Head(calls[c].todo)) :
          calls' = [calls EXCEPT ![c] = [@ EXCEPT !.seen[Head(calls[c].todo)] =
                                                      [loaded |-> TRUE, out |-> o],
                                                  !.todo = Tail(@)]]
    /\ UNCHANGED <<loading, sentiment_analyzer, emotion_analyzer, nlp>>
    /\ LoadFrame

\* the attribute is None and the method goes to its fallback
AdapterUnavailable(c) ==
    /\ calls[c].step = "running"
    /\ calls[c].todo # <<>>
    /\ ~Attribute(Head(calls[c].todo))
    /\ calls' = [calls EXCEPT ![c] = [@ EXCEPT !.seen[Head(calls[c].todo)] = NotConsulted,
                                              !.todo = Tail(@)]]
    /\ UNCHANGED <<loading, sentiment_analyzer, emotion_analyzer, nlp>>
    /\ LoadFrame

\* the value the method returns from what its adapters did
MethodResult(k) ==
    CASE k.method = "analyze_sentiment" ->
             analyze_sentiment(k.seen.sentiment.loaded, k.text, k.seen.sentiment.out)
      [] k.method = "analyze_emotions" ->
             analyze_emotions(k.seen.emotion.loaded, k.text, k.seen.emotion.out)
      [] k.method = "extract_keywords" ->
             extract_keywords(k.seen.nlp.loaded, k.text, k.seen.nlp.out)
      [] k.method = "analyze_full_mood" ->
             analyze_full_mood(<<k.seen.sentiment.loaded, k.seen.emotion.loaded,
                                 k.seen.nlp.loaded>>,
                               k.text, k.seen.sentiment.out, k.seen.emotion.out,
                               k.seen.nlp.out)

MethodReturns(c) ==
    /\ calls[c].step = "running"
    /\ calls[c].todo = <<>>
    /\ calls' = [calls EXCEPT ![c] = [@ EXCEPT !.step = "returned",
                                              !.result = MethodResult(calls[c])]]
    /\ UNCHANGED <<loading, sentiment_analyzer, emotion_analyzer, nlp>>
    /\ LoadFrame

\* the caller takes the value and remembers which models failed on this call
CallerContinues(c) ==
    /\ calls[c].step = "returned"
    /\ calls' = [calls EXCEPT ![c] =
                    IdleCaller({Adapters[i] : i \in {j \in 1..3 :
                                    AdapterFailed(Adapters[j], calls[c].seen[Adapters[j]])}})]
    /\ UNCHANGED <<loading, sentiment_analyzer, emotion_analyzer, nlp>>
    /\ LoadFrame

NextLoad ==
    \/ LoadModel
    \/ LoadRaises
    \/ \E c \in Callers : BeginCall(c)
    \/ \E c \in Callers : AdapterCalled(c)
    \/ \E c \in Callers : AdapterUnavailable(c)
    \/ \E c \in Callers : MethodReturns(c)
    \/ \E c \in Callers : CallerContinues(c)

SpecLoad == InitLoad /\ [][NextLoad]_vars

----------------------------------------------------------------------------
(* Properties of the analyzer's load state, checked under SpecLoad.         *)

LoadFlags == <<sentiment_analyzer, emotion_analyzer, nlp>>

\* all three models are available or none is
AllOrNothing == sentiment_analyzer = emotion_analyzer /\ emotion_analyzer = nlp

\* a step of caller c that consults an adapter whose attribute is set calls
\* the model, whatever failed on the caller's earlier call
ConsultsWhenSet(c) ==
    (/\ calls[c].step = "running"
     /\ calls[c].todo # <<>>
     /\ Attribute(Head(calls[c].todo))
     /\ calls'[c] # calls[c])
    => /\ calls'[c].seen[Head(calls[c].todo)].loaded
       /\ calls'[c].seen[Head(calls[c].todo)].out \in AdapterAnswers(Head(calls[c].todo))

\* C27: after construction the sentiment scorer, the emotion scorer and the
\* parser are all available or all unavailable; no step of analyze_sentiment,
\* analyze_emotions, extract_keywords or analyze_full_mood, by any of the
\* concurrent callers and whether the model call fails or not, changes any of
\* the three; a model that failed on a call is called again on the next.
C27_AvailabilityFixedAtLoad ==
    /\ [](loading = "done" => AllOrNothing)
    /\ [][(loading = "done" => LoadFlags' = LoadFlags)
          /\ \A c \in Callers : ConsultsWhenSet(c)]_vars

\* a caller whose last call saw the sentiment scorer fail is served by the
\* scorer on its next call, while the other caller is inside a call whose
\* parser has just failed
C27_Witness ==
    /\ loading = "done"
    /\ sentiment_analyzer /\ emotion_analyzer /\ nlp
    /\ "sentiment" \in calls["c1"].last_failed
    /\ calls["c1"].step = "returned"
    /\ calls["c1"].method = "analyze_sentiment"
    /\ calls["c1"].seen.sentiment.loaded
    /\ calls["c1"].result.sentiment = "positive"
    /\ calls["c1"].result.energy = "high"
    /\ calls["c2"].step = "running"
    /\ calls["c2"].method = "analyze_full_mood"
    /\ calls["c2"].seen.nlp.loaded
    /\ calls["c2"].seen.nlp.out.kind = "raises"

----------------------------------------------------------------------------
(* The personal endpoints of backend/app/api/moods.py over the mood_entries *)
(* table: save, history and delete.  A database call (query, commit,        *)
(* refresh) answers or raises; what a handler does with either is its code. *)

SelectSeq3(rows, user_id) ==
    LET Owned(e) == e.user_id = user_id IN SelectSeq(rows, Owned)

Reverse(rows) == [i \in 1..Len(rows) |-> rows[Len(rows) + 1 - i]]

\* lines 120-125: the caller's rows, newest first, after skip, at most limit
HistoryRows(rows, user_id, lim, skip) ==
    LET mine == Reverse(SelectSeq3(rows, user_id))
    IN  SubSeq(mine, skip + 1, Min(Len(mine), skip + lim))

\* FindEntry looking the row up by its id alone
FindEntry_AnyOwner(rows, entry_id, user_id) ==
    IF \E i \in 1..Len(rows) : rows[i].id = entry_id
    THEN rows[CHOOSE i \in 1..Len(rows) : rows[i].id = entry_id]
    ELSE None

\* lines 201-203: the first row with the id that the caller owns, or None
FindEntry(rows, entry_id, user_id) ==
    IF \E i \in 1..Len(rows) : rows[i].id = entry_id /\ rows[i].user_id = user_id
    THEN rows[CHOOSE i \in 1..Len(rows) : rows[i].id = entry_id /\ rows[i].user_id = user_id]
    ELSE None

\* db.delete(entry); db.commit()
WithoutEntry(rows, entry) ==
    LET Other(e) == e # entry IN SelectSeq(rows, Other)

EntryIds == 1..(MaxEntries + 1)

HistoryLimits == {1, 20}

HistorySkips == {0, 1}

\* POST /analyze-and-save when db.refresh raises after the commit: lines
\* 98-99, 103-106
AnalyzeAndSaveRefreshFails ==
    /\ request = None
    /\ next_id <= MaxEntries
    /\ \E t \in RequestTexts, u \in Users, o \in AdapterOutcomes :
          /\ ~TextTooShort(t)
          /\ request' = [endpoint |-> "/analyze-and-save", text |-> t, current_user |-> u]
          /\ text' = Strip(t)
          /\ scorer' = Seen(sentiment_analyzer, o[1])
          /\ emotion_scorer' = Seen(emotion_analyzer, o[2])
          /\ parser' = Seen(nlp, o[3])
          /\ profile' = analyze_full_mood(<<sentiment_analyzer, emotion_analyzer, nlp>>,
                                          Strip(t), o[1], o[2], o[3])
          /\ entries' = Append(entries, MoodEntry(next_id, u, Strip(t), profile'))
    /\ next_id' = next_id + 1
    /\ called' = "analyze_full_mood"
    /\ sentiment_result' = None
    /\ response' = analyze_and_save_mood_except([type |-> "SQLAlchemyError"])
    /\ UNCHANGED <<sentiment_analyzer, emotion_analyzer, nlp>>
    /\ UNCHANGED <<playlistVars, concurrentVars>>

\* GET /history: lines 119-127
GetMoodHistory ==
    /\ request = None
    /\ \E u \in Users, lim \in HistoryLimits, skip \in HistorySkips :
          /\ request' = [endpoint |-> "/history", current_user |-> u, limit |-> lim,
                         skip |-> skip]
          /\ response' = [status_code |-> 200, body |-> HistoryRows(entries, u, lim, skip)]
    /\ UNCHANGED <<entries, next_id>>
    /\ UNCHANGED <<analyzerVars, playlistVars, concurrentVars>>

\* GET /history when the query raises: lines 129-131
GetMoodHistoryFails ==
    /\ request = None
    /\ \E u \in Users, lim \in HistoryLimits, skip \in HistorySkips :
          request' = [endpoint |-> "/history", current_user |-> u, limit |-> lim,
                      skip |-> skip]
    /\ response' = HTTPException(500, "Failed to fetch mood history")
    /\ UNCHANGED <<entries, next_id>>
    /\ UNCHANGED <<analyzerVars, playlistVars, concurrentVars>>

\* DELETE /entry/{entry_id} when the query finds the caller's row: lines 201-211
DeleteMoodEntry ==
    /\ request = None
    /\ \E u \in Users, entry_id \in EntryIds :
          /\ FindEntry(entries, entry_id, u) # None
          /\ request' = [endpoint |-> "/entry", entry_id |-> entry_id, current_user |-> u]
          /\ entries' = WithoutEntry(entries, FindEntry(entries, entry_id, u))
    /\ response' = [status_code |-> 200, body |-> [message |-> "Mood entry deleted successfully"]]
    /\ UNCHANGED next_id
    /\ UNCHANGED <<analyzerVars, playlistVars, concurrentVars>>

\* DELETE /entry/{entry_id} when the query finds no such row of the caller:
\* lines 206-207, 213-214
DeleteMoodEntryNotFound ==
    /\ request = None
    /\ \E u \in Users, entry_id \in EntryIds :
          /\ FindEntry(entries, entry_id, u) = None
          /\ request' = [endpoint |-> "/entry", entry_id |-> entry_id, current_user |-> u]
    /\ response' = HTTPException(404, "Mood entry not found")
    /\ UNCHANGED <<entries, next_id>>
    /\ UNCHANGED <<analyzerVars, playlistVars, concurrentVars>>

\* DELETE /entry/{entry_id} when the query or the commit raises: lines 215-218
DeleteMoodEntryFails ==
    /\ request = None
    /\ \E u \in Users, entry_id \in EntryIds :
          request' = [endpoint |-> "/entry", entry_id |-> entry_id, current_user |-> u]
    /\ response' = HTTPException(500, "Failed to delete mood entry")
    /\ UNCHANGED <<entries, next_id>>
    /\ UNCHANGED <<analyzerVars, playlistVars, concurrentVars>>

NextEntries ==
    \/ AnalyzeAndSaveTooShort
    \/ AnalyzeAndSave
    \/ AnalyzeAndSaveCommitFails
    \/ AnalyzeAndSaveRefreshFails
    \/ GetMoodHistory
    \/ GetMoodHistoryFails
    \/ DeleteMoodEntry
    \/ DeleteMoodEntryNotFound
    \/ DeleteMoodEntryFails
    \/ NextRequest

SpecEntries == InitApi /\ [][NextEntries]_vars

----------------------------------------------------------------------------
(* Properties of the personal endpoints, checked under SpecEntries.         *)

\* the step answers a request to the endpoint
Answers(endpoint) == request = None /\ request' # None /\ request'.endpoint = endpoint

\* the row holds the fields of the profile in the response body
HoldsProfile(row, body) ==
    /\ row.sentiment = body.sentiment
    /\ row.sentiment_confidence = body.sentiment_confidence
    /\ row.energy_level = body.energy_level
    /\ row.emotions = body.emotions
    /\ row.keywords = body.keywords
    /\ row.color_palette = body.color_palette
    /\ row.art_style = body.art_style
    /\ row.music_mood = body.music_mood
    /\ row.ai_insight = body.ai_insight

\* C28: a request to /analyze-and-save that succeeds persists exactly one
\* entry, owned by the authenticated user and holding the fields of the
\* returned profile; a request that fails, at whatever step, persists no
\* entry: the stored entries are unchanged.
C28_SaveIsAllOrNothing ==
    [][Answers("/analyze-and-save") =>
          IF response'.status_code = 200
          THEN /\ Len(entries') = Len(entries) + 1
               /\ SubSeq(entries', 1, Len(entries)) = entries
               /\ entries'[Len(entries')].user_id = request'.current_user
               /\ entries'[Len(entries')].text_content = Strip(request'.text)
               /\ HoldsProfile(entries'[Len(entries')], response'.body)
          ELSE entries' = entries]_vars

\* the caller of the request owns a stored row with the id the request names
NamesOwnEntry(rows, req) ==
    \E i \in 1..Len(rows) : rows[i].id = req.entry_id /\ rows[i].user_id = req.current_user

\* rows2 is rows without the rows of the given id and owner, all others kept in order
OnlyThatEntryRemoved(rows, rows2, req) ==
    LET Kept(e) == ~(e.id = req.entry_id /\ e.user_id = req.current_user)
    IN  /\ rows2 = SelectSeq(rows, Kept)
        /\ Len(rows2) >= Len(rows) - 1

NotFoundAnswer(r) == r.status_code = 404 /\ r.detail = "Mood entry not found"

DeleteFailedAnswer(r) == r.status_code = 500 /\ r.detail = "Failed to delete mood entry"

\* a history call changes no row and lists rows of the caller only
HistoryIsOwn ==
    Answers("/history") =>
        /\ entries' = entries
        /\ response'.status_code = 200 =>
              \A i \in 1..Len(response'.body) :
                  /\ response'.body[i].user_id = request'.current_user
                  /\ response'.body[i] \in Range(entries)

\* C29 as stated: a delete call naming a missing entry or another user's
\* entry is always answered 404
C29_Original ==
    [][/\ Answers("/entry") =>
             IF NamesOwnEntry(entries, request')
             THEN entries' = entries \/ OnlyThatEntryRemoved(entries, entries', request')
             ELSE NotFoundAnswer(response') /\ entries' = entries
       /\ HistoryIsOwn]_vars

\* C29: a delete call removes at most the one entry with the given id that
\* the caller owns, and removes it when it answers 200; a call naming an
\* entry of another user, or a missing entry, leaves every stored entry
\* unchanged and is answered 404 'Mood entry not found', or 500 'Failed to
\* delete mood entry' when the database raises; history changes nothing and
\* returns only the caller's entries.
C29_OwnerOnlyDelete ==
    [][/\ Answers("/entry") =>
             /\ IF NamesOwnEntry(entries, request')
                THEN \/ entries' = entries /\ DeleteFailedAnswer(response')
                     \/ /\ OnlyThatEntryRemoved(entries, entries', request')
                        /\ response'.status_code = 200
                ELSE /\ NotFoundAnswer(response') \/ DeleteFailedAnswer(response')
                     /\ entries' = entries
             /\ response'.status_code = 200 => NamesOwnEntry(entries, request')
       /\ HistoryIsOwn]_vars

\* user 2 named the entry of user 1: 404, and the entry is still stored
C29_Witness ==
    /\ request # None
    /\ request.endpoint = "/entry"
    /\ NotFoundAnswer(response)
    /\ Len(entries) = MaxEntries
    /\ \E i \in 1..Len(entries) :
          entries[i].id = request.entry_id /\ entries[i].user_id # request.current_user

-----------------------------------------------------------------------------
(* Registration (backend/app/api/auth.py).  register_user is an async def   *)
(* with no await in its body, so on the one event loop that main.py starts  *)
(* a handler body runs from its first line to its response without another  *)
(* handler running in between; what overlaps is the time requests spend in  *)
(* flight before and after their handler runs.                              *)

Clients == {"c1", "c2"}

\* user.email as the handler sees it
Emails == {"a@gmail.com", "b@gmail.com", "a@gmail.co"}

Usernames == {"ann", "bob"}

\* UserCreate, lines 17-21
UserCreate(username, email) == [username |-> username, email |-> email]

\* str.endswith
EndsWith(s, suffix) ==
    /\ Len(s) >= Len(suffix)
    /\ SubSeq(s, Len(s) - Len(suffix) + 1, Len(s)) = suffix

\* line 127
IsGmail(email) == EndsWith(email, "@gmail.com")

\* get_user_by_email as a query that finds nothing
get_user_by_email_FindsNothing(rows, email) == None

\* get_user_by_email, lines 64-66: the first row with the email, or None
get_user_by_email(rows, email) ==
    IF \E i \in 1..Len(rows) : rows[i].email = email
    THEN rows[CHOOSE i \in 1..Len(rows) :
                  /\ rows[i].email = email
                  /\ \A j \in 1..(i - 1) : rows[j].email # email]
    ELSE None

\* get_user_by_username, lines 68-70
get_user_by_username(rows, username) ==
    IF \E i \in 1..Len(rows) : rows[i].username = username
    THEN rows[CHOOSE i \in 1..Len(rows) :
                  /\ rows[i].username = username
                  /\ \A j \in 1..(i - 1) : rows[j].username # username]
    ELSE None

\* User(...) of lines 75-81 with the primary key assigned on commit
User(id, user) ==
    [id |-> id, username |-> user.username, email |-> user.email, is_active |-> TRUE]

\* create_user, lines 72-83: the table after db.add and db.commit
create_user(rows, user) == Append(rows, User(Len(rows) + 1, user))

\* UserResponse.from_orm(db_user), line 149
UserResponse(db_user) == [status_code |-> 200, body |-> db_user]

\* lines 128-131, 135-138, 141-144
NotGmailError == HTTPException(400, "Only Gmail accounts are allowed")

EmailTakenError == HTTPException(400, "Email already registered")

UsernameTakenError == HTTPException(400, "Username already taken")

\* lines 150-154
CreateFailedError == HTTPException(500, "Failed to create user")

\* what the server answers when the handler lets an exception escape
ServerError == HTTPException(500, "Internal Server Error")

\* no request of the client is in flight
IdleClient == [step |-> "idle", user |-> None, users_at_arrival |-> 0, response |-> None]

InitRegister ==
    /\ users = <<>>
    /\ registrations = [c \in Clients |-> IdleClient]
    /\ loading = "done"
    /\ calls = <<>>
    /\ sentiment_analyzer = FALSE
    /\ emotion_analyzer = FALSE
    /\ nlp = FALSE
    /\ called = "none"
    /\ text = ""
    /\ scorer = None
    /\ emotion_scorer = None
    /\ parser = None
    /\ sentiment_result = None
    /\ profile = None
    /\ CLIENT_ID = ""
    /\ pc = "idle"
    /\ mood_analysis = None
    /\ limit = 0
    /\ tags = <<>>
    /\ attempt = 0
    /\ data = None
    /\ requests = <<>>
    /\ responses = <<>>
    /\ catalog = <<>>
    /\ result = None
    /\ request = None
    /\ response = None
    /\ entries = <<>>
    /\ next_id = 1

\* what registration never touches
RegisterFrame == UNCHANGED <<analyzerVars, playlistVars, apiVars, loading, calls>>

\* the handler of client c answers with r
Answer(c, r) ==
    registrations' = [registrations EXCEPT ![c].step = "answered", ![c].response = r]

\* POST /register arrives: the body is validated and a session is opened,
\* lines 123-124; the handler body has not run yet
ReceiveRegistration(c) ==
    /\ registrations[c].step = "idle"
    /\ \E e \in Emails, n \in Usernames :
          registrations' = [registrations EXCEPT ![c] =
              [step |-> "received", user |-> UserCreate(n, e),
               users_at_arrival |-> Len(users), response |-> None]]
    /\ UNCHANGED users
    /\ RegisterFrame

\* lines 127-131
RegisterNotGmail(c) ==
    /\ registrations[c].step = "received"
    /\ ~IsGmail(registrations[c].user.email)
    /\ Answer(c, NotGmailError)
    /\ UNCHANGED users
    /\ RegisterFrame

\* lines 134-138
RegisterEmailTaken(c) ==
    /\ registrations[c].step = "received"
    /\ IsGmail(registrations[c].user.email)
    /\ get_user_by_email(users, registrations[c].user.email) # None
    /\ Answer(c, EmailTakenError)
    /\ UNCHANGED users
    /\ RegisterFrame

\* lines 140-144
RegisterUsernameTaken(c) ==
    /\ registrations[c].step = "received"
    /\ IsGmail(registrations[c].user.email)
    /\ get_user_by_email(users, registrations[c].user.email) = None
    /\ get_user_by_username(users, registrations[c].user.username) # None
    /\ Answer(c, UsernameTakenError)
    /\ UNCHANGED users
    /\ RegisterFrame

\* the three tests of lines 127, 134 and 140 all pass
PassesChecks(c) ==
    /\ registrations[c].step = "received"
    /\ IsGmail(registrations[c].user.email)
    /\ get_user_by_email(users, registrations[c].user.email) = None
    /\ get_user_by_username(users, registrations[c].user.username) = None

\* lines 147-149: the user is created and returned
RegisterUser(c) ==
    /\ PassesChecks(c)
    /\ users' = create_user(users, registrations[c].user)
    /\ Answer(c, UserResponse(users'[Len(users')]))
    /\ RegisterFrame

\* a query of line 134 or 140 raises: neither is inside the try block
RegisterQueryRaises(c) ==
    /\ registrations[c].step = "received"
    /\ IsGmail(registrations[c].user.email)
    /\ Answer(c, ServerError)
    /\ UNCHANGED users
    /\ RegisterFrame

\* db.commit() of line 83 raises: lines 150-154, nothing was stored
RegisterCommitRaises(c) ==
    /\ PassesChecks(c)
    /\ Answer(c, CreateFailedError)
    /\ UNCHANGED users
    /\ RegisterFrame

\* db.refresh of line 84 or from_orm of line 149 raises after the commit:
\* lines 150-154, the user stays stored
RegisterRefreshRaises(c) ==
    /\ PassesChecks(c)
    /\ users' = create_user(users, registrations[c].user)
    /\ Answer(c, CreateFailedError)
    /\ RegisterFrame

\* the response reaches the client
ResponseSent(c) ==
    /\ registrations[c].step = "answered"
    /\ registrations' = [registrations EXCEPT ![c] = IdleClient]
    /\ UNCHANGED users
    /\ RegisterFrame

NextRegister ==
    \/ \E c \in Clients : ReceiveRegistration(c)
    \/ \E c \in Clients : RegisterNotGmail(c)
    \/ \E c \in Clients : RegisterEmailTaken(c)
    \/ \E c \in Clients : RegisterUsernameTaken(c)
    \/ \E c \in Clients : RegisterUser(c)
    \/ \E c \in Clients : RegisterQueryRaises(c)
    \/ \E c \in Clients : RegisterCommitRaises(c)
    \/ \E c \in Clients : RegisterRefreshRaises(c)
    \/ \E c \in Clients : ResponseSent(c)

SpecRegister == InitRegister /\ [][NextRegister]_vars

-----------------------------------------------------------------------------
(* Properties of registration, checked under SpecRegister.                  *)

\* no two stored users share an email and no two share a username
NoSharedIdentity ==
    \A i, j \in 1..Len(users) :
        i # j => users[i].email # users[j].email /\ users[i].username # users[j].username

\* the step runs the handler of client c
Handles(c) == registrations[c].step = "received" /\ registrations'[c].step = "answered"

EmailStored(c) == \E i \in 1..Len(users) : users[i].email = registrations[c].user.email

UsernameStored(c) ==
    \E i \in 1..Len(users) : users[i].username = registrations[c].user.username

\* the rejection the handler gives a registration that passed the Gmail test
\* and whose email or username is stored
StoredRejection(c) == IF EmailStored(c) THEN EmailTakenError ELSE UsernameTakenError

\* C30 as stated: every registration whose email or username is stored is
\* answered 'Email already registered' or 'Username already taken'
C30_Original ==
    /\ []NoSharedIdentity
    /\ [][\A c \in Clients : Handles(c) =>
             /\ (EmailStored(c) \/ UsernameStored(c)) =>
                   /\ users' = users
                   /\ registrations'[c].response = StoredRejection(c)
             /\ ~IsGmail(registrations[c].user.email) => users' = users]_vars

\* C30: under any interleaving of registrations in flight no two stored
\* users share an email or a username; a registration whose email or
\* username is already stored creates no user and is rejected, with 'Only
\* Gmail accounts are allowed' when its email does not end in '@gmail.com',
\* otherwise with 'Email already registered' / 'Username already taken', or
\* with a 500 when a database query raises; a registration whose email does
\* not end in '@gmail.com' creates no user.
C30_RegistrationsStayUnique ==
    /\ []NoSharedIdentity
    /\ [][\A c \in Clients : Handles(c) =>
             /\ (EmailStored(c) \/ UsernameStored(c)) =>
                   /\ users' = users
                   /\ IF IsGmail(registrations[c].user.email)
                      THEN registrations'[c].response \in {StoredRejection(c), ServerError}
                      ELSE registrations'[c].response = NotGmailError
             /\ ~IsGmail(registrations[c].user.email) => users' = users]_vars

\* two registrations with one email were in flight with no user stored: the
\* first created the user, the second was rejected
C30_Witness ==
    /\ Len(users) = 1
    /\ registrations["c1"].step = "answered"
    /\ registrations["c2"].step = "answered"
    /\ registrations["c1"].users_at_arrival = 0
    /\ registrations["c2"].users_at_arrival = 0
    /\ registrations["c1"].user.email = registrations["c2"].user.email
    /\ registrations["c1"].response = UserResponse(users[1])
    /\ registrations["c2"].response = EmailTakenError

====
